---- MODULE Spec2Model ----
(***************************************************************************)
(* Model of the ad scoring and pattern-mining pipeline:                    *)
(*   server/src/services/adSuccessScoreCalculator.js  (scoring, parser)    *)
(*   unnamed/part_003 = services/adAnalysisEngine.js   (processAds,        *)
(*                                                     getSuccessPatterns) *)
(*   server/src/services/adAnalysisEngine.js           (the replacement    *)
(*       bodies of analyzeSuccessPatterns / analyzeAdStructure)            *)
(*                                                                         *)
(* JavaScript numbers are modelled as exact rationals [n, d] in lowest     *)
(* terms with d > 0; NaN is the record with d = 0.  Times are counted in   *)
(* hours.  Strings are sequences of one-character strings.                 *)
(***************************************************************************)
EXTENDS Integers, Sequences, FiniteSets, TLC

VARIABLES
    pureFn, pureArg, pureRet, pureDone,   \* a pure function, its input and result
    now,          \* Date.now(), in hours
    scoreCache,   \* the AdScore collection, by adId
    batch,        \* the ads handed to processAds
    req,          \* where the processAds call stands
    task,         \* the calculateScore call of each element of the batch
    running,      \* the call whose synchronous code is on the stack, or 0
    frames,       \* the call stack below calculateScore
    stored,       \* the SuccessfulAd collection, by adId
    patternCache, \* the Redis key ad_success_patterns
    redisQ,       \* commands sent on the engine's Redis connection, not yet answered
    analysis,     \* the analysis processAds started without awaiting it
    getter,       \* the getSuccessPatterns calls
    search,       \* the searchSuccessfulAds request and the adapter's cache
    limiter,      \* the rate limiter middleware of the ad routes
    service       \* the RedisService singleton and the calls made on it

pureVars == <<pureFn, pureArg, pureRet, pureDone>>
scoreVars == <<now, scoreCache, batch, req, task, running, frames>>
patternVars == <<stored, patternCache, redisQ, analysis, getter>>
vars == <<pureFn, pureArg, pureRet, pureDone,
          now, scoreCache, batch, req, task, running, frames,
          stored, patternCache, redisQ, analysis, getter, search,
          limiter, service>>
auxVars == <<limiter, service>>

-----------------------------------------------------------------------------
(* Bounds of the model *)

\* longest range string drawn as a parser input
MaxLen == 4
\* call frames the engine's stack holds before it throws RangeError
StackLimit == 4
\* hours the clock may advance
MaxTicks == 1
\* the component scores drawn are the multiples of 25/ScoreSteps in [0, 25]
ScoreSteps == 4
\* concurrent getSuccessPatterns calls
MaxGetters == 1
\* documents of a corpus, terms listed per document, words of the vocabulary
MaxDocs == 6
DocTerms == 12
NumWords == 25
MaxShift == 2
\* retries of a search request the model counts; further ones are not counted
MaxRetries == 1
\* ads of a collection handed to analyzeAdStructure
MaxAds == 3
\* the options of the rate limiter, in clock ticks and requests, the ticks
\* the clock may advance and the requests sent to the middleware
windowMs == 2
maxRequests == 2
MaxClock == 5
MaxRequestsSent == 5
\* createClient calls and calls made on the RedisService
MaxClients == 3
MaxCalls == 3

-----------------------------------------------------------------------------
(* JavaScript numbers *)

Abs(x) == IF x < 0 THEN -x ELSE x

RECURSIVE GCD(_, _)
GCD(a, b) == IF b = 0 THEN a ELSE GCD(b, a % b)

NaN == [n |-> 0, d |-> 0]
IsNaN(x) == x.d = 0

\* the rational p/q (q # 0) in lowest terms
Q(p, q) ==
    LET g == GCD(Abs(p), Abs(q))
        s == IF q < 0 THEN -1 ELSE 1
    IN  [n |-> s * (p \div g), d |-> s * (q \div g)]

I(k) == [n |-> k, d |-> 1]

Add(a, b) == IF IsNaN(a) \/ IsNaN(b) THEN NaN
             ELSE Q(a.n * b.d + b.n * a.d, a.d * b.d)
Sub(a, b) == IF IsNaN(a) \/ IsNaN(b) THEN NaN
             ELSE Q(a.n * b.d - b.n * a.d, a.d * b.d)
\* cross-cancelled before multiplying, to keep the integers small
Mul(a, b) ==
    IF IsNaN(a) \/ IsNaN(b) THEN NaN
    ELSE LET g1 == GCD(Abs(a.n), b.d)
             g2 == GCD(Abs(b.n), a.d)
         IN  Q((a.n \div g1) * (b.n \div g2), (a.d \div g2) * (b.d \div g1))
\* division by a non-zero number (the code divides only by constants and by
\* values it has compared with 0 or clamped)
Div(a, b) == IF IsNaN(a) \/ IsNaN(b) \/ b.n = 0 THEN NaN
             ELSE Mul(a, Q(b.d, b.n))

\* every comparison with NaN is false
Ge(a, b) == ~IsNaN(a) /\ ~IsNaN(b) /\ a.n * b.d >= b.n * a.d
Gt(a, b) == ~IsNaN(a) /\ ~IsNaN(b) /\ a.n * b.d > b.n * a.d
Le(a, b) == Ge(b, a)

\* Math.max / Math.min: NaN when an argument is NaN
MathMax(a, b) == IF IsNaN(a) \/ IsNaN(b) THEN NaN ELSE IF Ge(a, b) THEN a ELSE b
MathMin(a, b) == IF IsNaN(a) \/ IsNaN(b) THEN NaN ELSE IF Ge(a, b) THEN b ELSE a

\* Math.round: floor(x + 1/2), NaN for NaN
MathRound(x) == IF IsNaN(x) THEN NaN ELSE I((2 * x.n + x.d) \div (2 * x.d))

IsInteger(x) == x.d = 1

-----------------------------------------------------------------------------
(* JavaScript values held by the fields of a raw ad *)

Undefined == [t |-> "undefined", s |-> <<>>, v |-> NaN]
Null == [t |-> "null", s |-> <<>>, v |-> NaN]
Str(s) == [t |-> "string", s |-> s, v |-> NaN]
NumVal(x) == [t |-> "number", s |-> <<>>, v |-> x]

\* !x
Falsy(x) ==
    \/ x.t \in {"undefined", "null"}
    \/ x.t = "string" /\ x.s = <<>>
    \/ x.t = "number" /\ (IsNaN(x.v) \/ x.v.n = 0)

Digits == <<"0", "1", "2", "3", "4", "5", "6", "7", "8", "9">>
IsDigit(c) == \E i \in 1..10 : Digits[i] = c
DigitValue(c) == (CHOOSE i \in 1..10 : Digits[i] = c) - 1

\* s.includes(c)
Includes(s, c) == \E i \in 1..Len(s) : s[i] = c

\* s.replace(/[^\d]/g, '')
RECURSIVE StripNonDigits(_)
StripNonDigits(s) ==
    IF s = <<>> THEN <<>>
    ELSE IF IsDigit(Head(s)) THEN <<Head(s)>> \o StripNonDigits(Tail(s))
    ELSE StripNonDigits(Tail(s))

RECURSIVE DecimalValue(_, _)
DecimalValue(s, acc) ==
    IF s = <<>> THEN acc ELSE DecimalValue(Tail(s), 10 * acc + DigitValue(Head(s)))

\* parseInt(s, 10) of a string of digits only: NaN for the empty string
ParseIntDigits(s) == IF s = <<>> THEN NaN ELSE I(DecimalValue(s, 0))

\* s.split(c)
RECURSIVE SplitAt(_, _, _)
SplitAt(s, c, cur) ==
    IF s = <<>> THEN <<cur>>
    ELSE IF Head(s) = c THEN <<cur>> \o SplitAt(Tail(s), c, <<>>)
    ELSE SplitAt(Tail(s), c, Append(cur, Head(s)))
Split(s, c) == SplitAt(s, c, <<>>)

-----------------------------------------------------------------------------
(* RangeParser: parseSpendRange, parseImpressionRange *)

\* ParseRangeString with the halving of "<N" forgotten
ParseRangeString_BelowNotHalved(s) ==
    IF Includes(s, "-")
    THEN LET parts == Split(s, "-")
             min == ParseIntDigits(StripNonDigits(parts[1]))
             max == ParseIntDigits(StripNonDigits(parts[2]))
         IN  Div(Add(min, max), I(2))
    ELSE IF Includes(s, ">")
    THEN Mul(ParseIntDigits(StripNonDigits(s)), Q(3, 2))
    ELSE ParseIntDigits(StripNonDigits(s))

\* the body of the try block, for a string
ParseRangeString(s) ==
    IF Includes(s, "-")
    THEN LET parts == Split(s, "-")
             min == ParseIntDigits(StripNonDigits(parts[1]))
             max == ParseIntDigits(StripNonDigits(parts[2]))
         IN  Div(Add(min, max), I(2))
    ELSE IF Includes(s, "<")
    THEN Div(ParseIntDigits(StripNonDigits(s)), I(2))
    ELSE IF Includes(s, ">")
    THEN Mul(ParseIntDigits(StripNonDigits(s)), Q(3, 2))
    ELSE ParseIntDigits(StripNonDigits(s))

\* a truthy value that is no string has no includes method: the TypeError is
\* caught by the catch block, which returns 0
parseSpendRange(spendRange) ==
    IF Falsy(spendRange) THEN I(0)
    ELSE IF spendRange.t = "string" THEN ParseRangeString(spendRange.s)
    ELSE I(0)

parseImpressionRange(impressionRange) == parseSpendRange(impressionRange)

-----------------------------------------------------------------------------
(* ScoreCalculator: the four tier functions and the weighted total *)

\* calculateDurationScore with the 14-day tier scaled by 7 days, not 16
calculateDurationScore_Tier14Over7(durationDays) ==
    IF Ge(durationDays, I(60)) THEN I(25)
    ELSE IF Ge(durationDays, I(30))
    THEN Add(I(15), Mul(Div(Sub(durationDays, I(30)), I(30)), I(10)))
    ELSE IF Ge(durationDays, I(14))
    THEN Add(I(10), Mul(Div(Sub(durationDays, I(14)), I(7)), I(5)))
    ELSE IF Ge(durationDays, I(7))
    THEN Add(I(5), Mul(Div(Sub(durationDays, I(7)), I(7)), I(5)))
    ELSE MathMax(I(0), Mul(Div(durationDays, I(7)), I(5)))

calculateDurationScore(durationDays) ==
    IF Ge(durationDays, I(60)) THEN I(25)
    ELSE IF Ge(durationDays, I(30))
    THEN Add(I(15), Mul(Div(Sub(durationDays, I(30)), I(30)), I(10)))
    ELSE IF Ge(durationDays, I(14))
    THEN Add(I(10), Mul(Div(Sub(durationDays, I(14)), I(16)), I(5)))
    ELSE IF Ge(durationDays, I(7))
    THEN Add(I(5), Mul(Div(Sub(durationDays, I(7)), I(7)), I(5)))
    ELSE MathMax(I(0), Mul(Div(durationDays, I(7)), I(5)))

\* calculateSpendScore with the 500 tier scaled by 400, not 500
calculateSpendScore_Tier500Over400(spendAmount) ==
    IF Ge(spendAmount, I(5000)) THEN I(25)
    ELSE IF Ge(spendAmount, I(1000))
    THEN Add(I(15), Mul(Div(Sub(spendAmount, I(1000)), I(4000)), I(10)))
    ELSE IF Ge(spendAmount, I(500))
    THEN Add(I(10), Mul(Div(Sub(spendAmount, I(500)), I(400)), I(5)))
    ELSE IF Ge(spendAmount, I(100))
    THEN Add(I(5), Mul(Div(Sub(spendAmount, I(100)), I(400)), I(5)))
    ELSE MathMax(I(0), Mul(Div(spendAmount, I(100)), I(5)))

calculateSpendScore(spendAmount) ==
    IF Ge(spendAmount, I(5000)) THEN I(25)
    ELSE IF Ge(spendAmount, I(1000))
    THEN Add(I(15), Mul(Div(Sub(spendAmount, I(1000)), I(4000)), I(10)))
    ELSE IF Ge(spendAmount, I(500))
    THEN Add(I(10), Mul(Div(Sub(spendAmount, I(500)), I(500)), I(5)))
    ELSE IF Ge(spendAmount, I(100))
    THEN Add(I(5), Mul(Div(Sub(spendAmount, I(100)), I(400)), I(5)))
    ELSE MathMax(I(0), Mul(Div(spendAmount, I(100)), I(5)))

calculateImpressionsScore(impressions) ==
    IF Ge(impressions, I(500000)) THEN I(25)
    ELSE IF Ge(impressions, I(100000))
    THEN Add(I(15), Mul(Div(Sub(impressions, I(100000)), I(400000)), I(10)))
    ELSE IF Ge(impressions, I(50000))
    THEN Add(I(10), Mul(Div(Sub(impressions, I(50000)), I(50000)), I(5)))
    ELSE IF Ge(impressions, I(10000))
    THEN Add(I(5), Mul(Div(Sub(impressions, I(10000)), I(40000)), I(5)))
    ELSE MathMax(I(0), Mul(Div(impressions, I(10000)), I(5)))

\* metrics: a record with impressions and estimatedEngagement
calculateEngagementScore(metrics) ==
    LET engagementRate ==
            IF Gt(metrics.impressions, I(0))
            THEN Div(metrics.estimatedEngagement, metrics.impressions)
            ELSE I(0)
    IN  IF Ge(engagementRate, Q(10, 100)) THEN I(25)
        ELSE IF Ge(engagementRate, Q(5, 100))
        THEN Add(I(15), Mul(Div(Sub(engagementRate, Q(5, 100)), Q(5, 100)), I(10)))
        ELSE IF Ge(engagementRate, Q(3, 100))
        THEN Add(I(10), Mul(Div(Sub(engagementRate, Q(3, 100)), Q(2, 100)), I(5)))
        ELSE IF Ge(engagementRate, Q(1, 100))
        THEN Add(I(5), Mul(Div(Sub(engagementRate, Q(1, 100)), Q(2, 100)), I(5)))
        ELSE MathMax(I(0), Mul(Div(engagementRate, Q(1, 100)), I(5)))

WeightedScore(componentScores) ==
    Add(Add(Mul(componentScores.durationScore, Q(12, 10)),
            Mul(componentScores.spendScore, Q(8, 10))),
        Add(Mul(componentScores.impressionsScore, Q(8, 10)),
            Mul(componentScores.engagementScore, Q(12, 10))))

\* calculateTotalScore with the rounding forgotten
calculateTotalScore_NotRounded(componentScores) == WeightedScore(componentScores)

calculateTotalScore(componentScores) == MathRound(WeightedScore(componentScores))

ZeroScores ==
    [durationScore |-> I(0), spendScore |-> I(0),
     impressionsScore |-> I(0), engagementScore |-> I(0)]

-----------------------------------------------------------------------------
(* Raw ads *)

\* the clock (hours) when the server starts serving
StartHour == 2000
\* 24 * 60 * 60 * 1000 ms, in hours
DayHours == 24

Chars(n) == [i \in 1..n |-> "x"]

\* "1000-2000", "50000-100000", "N/A"
Spend1000to2000 == Str(<<"1", "0", "0", "0", "-", "2", "0", "0", "0">>)
Impr50kto100k == Str(<<"5", "0", "0", "0", "0", "-", "1", "0", "0", "0", "0", "0">>)
SpendNA == Str(<<"N", "/", "A">>)

\* An entry of a batch.  kind "null" is a null or undefined entry; start and
\* stop hold what new Date(...) makes of the field (NaN: an invalid date);
\* demographics < 0 stands for an absent demographic_distribution; bodies
\* holds ad_creative_bodies when hasBodies.
Ad(id, start, spend, impressions) ==
    [kind |-> "object", id |-> id,
     start |-> start, hasStop |-> FALSE, stop |-> NaN,
     spend |-> spend, impressions |-> impressions,
     demographics |-> -1,
     hasBodies |-> TRUE, bodies |-> <<Chars(5), Chars(5)>>]

NullAd == [Ad("", NaN, Undefined, Undefined) EXCEPT !.kind = "null"]

\* started 45 days before the server start, still running
Ad1 == Ad("a1", I(StartHour - 45 * DayHours), Spend1000to2000, Impr50kto100k)
AdNA == Ad("a2", I(StartHour - 45 * DayHours), SpendNA, Impr50kto100k)
Ad3 == Ad("a3", I(StartHour - 10 * DayHours), Str(<<"<", "1", "0", "0">>), Undefined)
Ad4 == [Ad("a4", NaN, Spend1000to2000, Impr50kto100k) EXCEPT !.hasBodies = FALSE]
Ad5 == [Ad("a5", I(StartHour - 70 * DayHours), Spend1000to2000, Impr50kto100k)
            EXCEPT !.demographics = 5, !.bodies = <<Chars(50)>>]

Ad6 == Ad("a6", I(StartHour - 20 * DayHours), Str(<<">", "5", "0", "0", "0">>),
          Str(<<"$", "2", "5", "0">>))

AdIds == {"a1", "a2", "a3", "a4", "a5", "a6"}

\* five ads with creative text
FiveBatch == <<Ad1, AdNA, Ad3, Ad5, Ad6>>

\* the batches handed to processAds
Batches ==
    { <<Ad1>>, <<AdNA, Ad1>>, <<NullAd, Ad1>>, <<Ad1, NullAd>>, <<Ad4, Ad3>>,
      FiveBatch }

-----------------------------------------------------------------------------
(* MetricExtractor: what each function computes around its calls *)

\* bodies.join(' ').length
RECURSIVE SumLen(_)
SumLen(ss) == IF ss = <<>> THEN 0 ELSE Len(Head(ss)) + SumLen(Tail(ss))
JoinedLength(ss) == IF ss = <<>> THEN 0 ELSE SumLen(ss) + Len(ss) - 1

\* DurationDays counting the days within the month only
DurationDays_WithinMonth(ad, t) ==
    LET startTime == ad.start
        endTime == IF ad.hasStop THEN ad.stop ELSE I(t)
        days == MathRound(Div(Sub(endTime, startTime), I(DayHours)))
    IN  IF IsNaN(days) THEN NaN ELSE MathMax(I(1), I(days.n % 30))

\* extractMetrics, lines 83-85, at clock t
DurationDays(ad, t) ==
    LET startTime == ad.start
        endTime == IF ad.hasStop THEN ad.stop ELSE I(t)
    IN  MathMax(I(1), MathRound(Div(Sub(endTime, startTime), I(DayHours))))

\* estimateEngagement after its call of extractMetrics has returned a record
\* whose durationDays is innerDurationDays (lines 158-179)
EngagementGiven(ad, impressions, innerDurationDays) ==
    LET durationFactor ==
            MathMin(Q(3, 2), Add(I(1), Mul(Div(innerDurationDays, I(30)), Q(1, 2))))
        demographicFactor ==
            IF ad.demographics >= 0
            THEN MathMin(Q(6, 5), Add(I(1), Mul(Div(I(ad.demographics), I(10)), Q(1, 5))))
            ELSE I(1)
        contentFactor ==
            IF ad.hasBodies
            THEN MathMin(Q(13, 10),
                         Add(I(1), Mul(Div(I(JoinedLength(ad.bodies)), I(500)), Q(3, 10))))
            ELSE I(1)
        avgCTR == Q(1, 100)
        estimatedClicks ==
            Mul(Mul(Mul(Mul(impressions, avgCTR), durationFactor), demographicFactor),
                contentFactor)
        postEngagementRatio == Q(5, 2)
        estimatedPostEngagements == Mul(estimatedClicks, postEngagementRatio)
    IN  Add(estimatedClicks, estimatedPostEngagements)

\* extractMetrics after its call of estimateEngagement has returned
\* estimatedEngagement (lines 83-105)
MetricsGiven(ad, t, estimatedEngagement) ==
    LET durationDays == DurationDays(ad, t)
        spendAmount == parseSpendRange(ad.spend)
        impressions == parseImpressionRange(ad.impressions)
    IN  [durationDays |-> durationDays,
         spendAmount |-> spendAmount,
         impressions |-> impressions,
         estimatedEngagement |-> estimatedEngagement,
         dailySpend |-> Div(spendAmount, durationDays),
         dailyImpressions |-> Div(impressions, durationDays)]

\* calculateScore, lines 30-35
ComponentScoresOf(metrics) ==
    [durationScore |-> calculateDurationScore(metrics.durationDays),
     spendScore |-> calculateSpendScore(metrics.spendAmount),
     impressionsScore |-> calculateImpressionsScore(metrics.impressions),
     engagementScore |-> calculateEngagementScore(metrics)]

-----------------------------------------------------------------------------
(* ScoreCache: the AdScore collection *)

NoEntry ==
    [present |-> FALSE, totalScore |-> I(0), componentScores |-> ZeroScores,
     updatedAt |-> 0]

Entry(totalScore, componentScores, updatedAt) ==
    [present |-> TRUE, totalScore |-> totalScore,
     componentScores |-> componentScores, updatedAt |-> updatedAt]

HighScores ==
    [durationScore |-> I(25), spendScore |-> I(20),
     impressionsScore |-> I(15), engagementScore |-> I(25)]
LowScores ==
    [durationScore |-> I(10), spendScore |-> I(10),
     impressionsScore |-> I(10), engagementScore |-> I(10)]

EmptyCache == [id \in AdIds |-> NoEntry]

\* every ad scored an hour before the server start; a4 and a5 tie
CachedTotal ==
    [a1 |-> 91, a2 |-> 88, a3 |-> 84, a4 |-> 80, a5 |-> 80, a6 |-> 75]
AllFresh == [id \in AdIds |-> Entry(I(CachedTotal[id]), HighScores, StartHour - 1)]

\* The collection is durable and outlives the process: the documents a
\* process finds at start are any the schema admits.
CacheInits ==
    { EmptyCache,
      [EmptyCache EXCEPT !["a1"] = Entry(I(88), HighScores, StartHour - DayHours + 1)],
      [EmptyCache EXCEPT !["a1"] = Entry(I(88), HighScores, StartHour - DayHours)],
      [EmptyCache EXCEPT !["a1"] = Entry(I(88), HighScores, StartHour - 1),
                         !["a2"] = Entry(I(40), LowScores, StartHour - 1)],
      AllFresh }

\* calculateScore, line 17
Fresh(existingScore, t) ==
    existingScore.present /\ existingScore.updatedAt > t - DayHours

-----------------------------------------------------------------------------
(* calculateScore, one call per element of the batch *)

\* lookup: what findOne gave ("hit": a fresh entry, "miss": none or a stale
\* one, "failed": it rejected); at: the clock when it was answered
Pending ==
    [pc |-> "findOne", how |-> "none", cause |-> "none", lookup |-> "none",
     at |-> 0, successScore |-> I(0), componentScores |-> ZeroScores]

\* line 15 throws on a null entry, and so does line 60 in the catch block
Rejected == [Pending EXCEPT !.pc = "rejected", !.cause = "TypeError"]

\* lines 62-71
Fallback(cause, lookup, t) ==
    [pc |-> "resolved", how |-> "fallback", cause |-> cause, lookup |-> lookup,
     at |-> t, successScore |-> I(0), componentScores |-> ZeroScores]

\* lines 19-23
FromCache(existingScore, t) ==
    [pc |-> "resolved", how |-> "cached", cause |-> "none", lookup |-> "hit",
     at |-> t, successScore |-> existingScore.totalScore,
     componentScores |-> existingScore.componentScores]

Top(st) == st[Len(st)]

\* processAds, lines 26-28: every calculateScore call runs to its first await
ProcessAdsCalled(ads) ==
    /\ req = "idle"
    /\ running = 0
    /\ batch' = ads
    /\ task' = [i \in 1..Len(ads) |->
                   IF ads[i].kind = "null" THEN Rejected ELSE Pending]
    /\ req' = "scoring"
    /\ UNCHANGED <<now, scoreCache, running, frames, pureVars, auxVars, patternVars>>

\* processAds called on its own, not from a request handler
ProcessAds(ads) ==
    /\ ProcessAdsCalled(ads)
    /\ UNCHANGED search

\* AdScoreModel.findOne rejects: the catch block returns the fallback
FindOneFails(i) ==
    /\ running = 0
    /\ task[i].pc = "findOne"
    /\ task' = [task EXCEPT ![i] = Fallback("lookupFailed", "failed", now)]
    /\ UNCHANGED <<now, scoreCache, batch, req, running, frames, pureVars, auxVars, search, patternVars>>

\* AdScoreModel.findOne resolves: a fresh entry is returned, otherwise
\* extractMetrics is entered (line 27)
FindOneReturns(i) ==
    /\ running = 0
    /\ task[i].pc = "findOne"
    /\ LET existingScore == scoreCache[batch[i].id] IN
       IF Fresh(existingScore, now)
       THEN /\ task' = [task EXCEPT ![i] = FromCache(existingScore, now)]
            /\ UNCHANGED <<running, frames>>
       ELSE /\ task' = [task EXCEPT ![i].pc = "running", ![i].lookup = "miss",
                                  ![i].at = now]
            /\ running' = i
            /\ frames' = <<"extractMetrics">>
    /\ UNCHANGED <<now, scoreCache, batch, req, pureVars, auxVars, search, patternVars>>

\* extractMetrics, line 95: calls estimateEngagement
ExtractMetricsCalls ==
    /\ running # 0
    /\ Top(frames) = "extractMetrics"
    /\ Len(frames) < StackLimit
    /\ frames' = Append(frames, "estimateEngagement")
    /\ UNCHANGED <<now, scoreCache, batch, req, task, running, pureVars, auxVars, search, patternVars>>

\* estimateEngagement, line 158: calls extractMetrics before anything else
EstimateEngagementCalls ==
    /\ running # 0
    /\ Top(frames) = "estimateEngagement"
    /\ Len(frames) < StackLimit
    /\ frames' = Append(frames, "extractMetrics")
    /\ UNCHANGED <<now, scoreCache, batch, req, task, running, pureVars, auxVars, search, patternVars>>

\* StackOverflow with the catch block storing the default score it returns
StackOverflow_WritesFallback ==
    /\ running # 0
    /\ Len(frames) = StackLimit
    /\ task' = [task EXCEPT ![running] = Fallback("RangeError", "miss", task[running].at)]
    /\ scoreCache' = [scoreCache EXCEPT
                         ![batch[running].id] = Entry(I(0), ZeroScores, now)]
    /\ frames' = <<>>
    /\ running' = 0
    /\ UNCHANGED <<now, batch, req, pureVars, auxVars, search, patternVars>>

\* The stack is full: the next call throws RangeError.  Only parseSpendRange
\* has a try block and it makes no call that returns to this chain, so the
\* error unwinds every frame up to the catch block of calculateScore.
StackOverflow ==
    /\ running # 0
    /\ Len(frames) = StackLimit
    /\ task' = [task EXCEPT ![running] = Fallback("RangeError", "miss", task[running].at)]
    /\ frames' = <<>>
    /\ running' = 0
    /\ UNCHANGED <<now, scoreCache, batch, req, pureVars, auxVars, search, patternVars>>

Tick ==
    /\ running = 0
    /\ now < StartHour + MaxTicks
    /\ now' = now + 1
    /\ UNCHANGED <<scoreCache, batch, req, task, running, frames, pureVars, auxVars, search, patternVars>>

-----------------------------------------------------------------------------
(* processAds after the scores are joined; the SuccessfulAd collection *)

MIN_SUCCESS_SCORE == 70

NoDoc == [present |-> FALSE, successScore |-> I(0), adData |-> NullAd]
Doc(ad, successScore) ==
    [present |-> TRUE, successScore |-> successScore, adData |-> ad]

EmptyStore == [id \in AdIds |-> NoDoc]

Indices(n) == [i \in 1..n |-> i]

\* line 31: the indices of the scored ads that pass the filter, in order
SuccessfulIdx ==
    LET Passes(i) == Ge(task[i].successScore, I(MIN_SUCCESS_SCORE))
    IN  SelectSeq(Indices(Len(task)), Passes)

SuccessfulAds == [k \in 1..Len(SuccessfulIdx) |-> batch[SuccessfulIdx[k]]]

\* bulkWrite of one updateOne upsert per successful ad, in order
BulkWritten(st) ==
    [id \in AdIds |->
        IF \E k \in 1..Len(SuccessfulIdx) : batch[SuccessfulIdx[k]].id = id
        THEN LET k == CHOOSE k \in 1..Len(SuccessfulIdx) :
                          /\ batch[SuccessfulIdx[k]].id = id
                          /\ \A j \in (k + 1)..Len(SuccessfulIdx) :
                                 batch[SuccessfulIdx[j]].id # id
             IN  Doc(batch[SuccessfulIdx[k]], task[SuccessfulIdx[k]].successScore)
        ELSE st[id]]

-----------------------------------------------------------------------------
(* CorpusAnalyzer and PatternStore *)

MinAdsForPatterns == 5
TopLimit == 100
PatternExpiryHours == 24

\* the joined creative text of an ad is not blank
HasText(ad) == ad.hasBodies /\ \E i \in 1..Len(ad.bodies) : Len(ad.bodies[i]) > 0

RECURSIVE IdsOf(_)
IdsOf(ads) == IF ads = <<>> THEN <<>> ELSE <<Head(ads).id>> \o IdsOf(Tail(ads))

\* A report is identified by the documents its terms were drawn from, the ads
\* its structure rates were taken over, and its timestamp.
NoReport ==
    [kind |-> "none", docs |-> <<>>, ads |-> <<>>, updatedAt |-> 0,
     updatedAtIs |-> "Date"]

EmptyReport_NotStamped(t) == [NoReport EXCEPT !.kind = "empty"]

\* getSuccessPatterns, lines 292-297
EmptyReport(t) == [NoReport EXCEPT !.kind = "empty", !.updatedAt = t]

EnoughToAnalyze_CountsAds(ads) == Len(ads) >= MinAdsForPatterns

\* analyzeSuccessPatterns, lines 12-33 of the replacement body
EnoughToAnalyze(ads) ==
    /\ Len(ads) >= MinAdsForPatterns
    /\ Len(SelectSeq(ads, HasText)) >= MinAdsForPatterns

\* analyzeSuccessPatterns, lines 35-56
Patterns(ads, t) ==
    [kind |-> "patterns", docs |-> IdsOf(SelectSeq(ads, HasText)),
     ads |-> IdsOf(ads), updatedAt |-> t, updatedAtIs |-> "Date"]

\* JSON.stringify turns the Date into an ISO string; JSON.parse leaves it one
JsonStringify(report) == [report EXCEPT !.updatedAtIs = "string"]
JsonParse(text) == text

NoPatterns == [present |-> FALSE, value |-> NoReport, expiresAt |-> 0]

\* SET ad_success_patterns <json> EX 86400, at clock t
CacheSet(report, t) ==
    [present |-> TRUE, value |-> JsonStringify(report),
     expiresAt |-> t + PatternExpiryHours]

\* GET ad_success_patterns at clock t: an expired key is gone
CacheGet(cache, t) == IF cache.present /\ t < cache.expiresAt THEN cache ELSE NoPatterns

Cmd(who, op) == [who |-> who, op |-> op]

\* ads: the successfulAds handed to the analysis, which processAds returns
NoAnalysis == [state |-> "none", report |-> NoReport, ads |-> <<>>]

\* processAds, lines 36-41: the analysis runs up to its first await and the
\* successful ads are returned
StartAnalysisAndReturn ==
    /\ IF EnoughToAnalyze(SuccessfulAds)
       THEN \/ /\ analysis' = [state |-> "caching",
                                report |-> Patterns(SuccessfulAds, now),
                                ads |-> SuccessfulAds]
               /\ redisQ' = Append(redisQ, Cmd(0, "set"))
            \* an exception in lines 35-56 is logged and rethrown (lines
            \* 73-76): the promise of the analysis is rejected
            \/ /\ analysis' = [state |-> "rejected", report |-> NoReport,
                                ads |-> SuccessfulAds]
               /\ UNCHANGED redisQ
       ELSE /\ analysis' = [state |-> "skipped", report |-> NoReport,
                            ads |-> SuccessfulAds]
            /\ UNCHANGED redisQ
    /\ req' = "returned"

\* Promise.all rejects as soon as one calculateScore call has rejected;
\* processAds logs and rethrows (lines 42-45)
ProcessAdsRejects ==
    /\ req = "scoring"
    /\ running = 0
    /\ \E i \in 1..Len(task) : task[i].pc = "rejected"
    /\ req' = "rejected"
    /\ UNCHANGED <<now, scoreCache, batch, task, running, frames, pureVars, auxVars, search, patternVars>>

\* Promise.all resolves; lines 31-34.  With nothing to store,
\* storeSuccessfulAds returns without any I/O.
ProcessAdsJoin ==
    /\ req = "scoring"
    /\ running = 0
    /\ \A i \in 1..Len(task) : task[i].pc = "resolved"
    /\ IF SuccessfulIdx = <<>>
       THEN StartAnalysisAndReturn
       ELSE req' = "storing" /\ UNCHANGED <<analysis, redisQ>>
    /\ UNCHANGED <<now, scoreCache, batch, task, running, frames, pureVars, auxVars, search,
                   stored, patternCache, getter>>

\* storeSuccessfulAds: bulkWrite resolves
BulkWriteDone ==
    /\ req = "storing"
    /\ running = 0
    /\ stored' = BulkWritten(stored)
    /\ StartAnalysisAndReturn
    /\ UNCHANGED <<now, scoreCache, batch, task, running, frames, pureVars, auxVars, search,
                   patternCache, getter>>

\* BulkWriteFails without the catch block of storeSuccessfulAds: the error
\* reaches the catch block of processAds, which rethrows
BulkWriteFails_Rethrows ==
    /\ req = "storing"
    /\ running = 0
    /\ req' = "rejected"
    /\ UNCHANGED <<now, scoreCache, batch, task, running, frames, pureVars, auxVars, search,
                   patternVars>>

\* storeSuccessfulAds: bulkWrite rejects; the catch block logs (lines 74-76)
BulkWriteFails ==
    /\ req = "storing"
    /\ running = 0
    /\ StartAnalysisAndReturn
    /\ UNCHANGED <<now, scoreCache, batch, task, running, frames, pureVars, auxVars, search,
                   stored, patternCache, getter>>

\* a rejected promise nobody handles: the unhandledRejection handler of the
\* server logs and calls process.exit(1)
DetachedCatch_NoHandler ==
    /\ running = 0
    /\ analysis.state = "rejected"
    /\ analysis' = [analysis EXCEPT !.state = "unhandled"]
    /\ UNCHANGED <<scoreVars, pureVars, auxVars, search, stored, patternCache, redisQ, getter>>

\* processAds, lines 37-39: the handler attached to the promise of the
\* analysis logs its rejection
DetachedCatch ==
    /\ running = 0
    /\ analysis.state = "rejected"
    /\ analysis' = [analysis EXCEPT !.state = "logged"]
    /\ UNCHANGED <<scoreVars, pureVars, auxVars, search, stored, patternCache, redisQ, getter>>

\* analyzeSuccessPatterns, lines 59-72: the SET of the detached analysis is
\* answered
DetachedSetDone ==
    /\ running = 0
    /\ redisQ # <<>> /\ Head(redisQ) = Cmd(0, "set")
    /\ patternCache' = CacheSet(analysis.report, now)
    /\ redisQ' = Tail(redisQ)
    /\ analysis' = [analysis EXCEPT !.state = "done"]
    /\ UNCHANGED <<scoreVars, pureVars, auxVars, search, stored, getter>>

\* the SET fails: caught and logged (lines 67-69)
DetachedSetFails ==
    /\ running = 0
    /\ redisQ # <<>> /\ Head(redisQ) = Cmd(0, "set")
    /\ redisQ' = Tail(redisQ)
    /\ analysis' = [analysis EXCEPT !.state = "done"]
    /\ UNCHANGED <<scoreVars, pureVars, auxVars, search, stored, patternCache, getter>>

-----------------------------------------------------------------------------
(* CorpusAnalyzer: extractCommonTerms *)

\* listTerms(i).slice(0, 10) and .slice(0, 20)
TermsPerDocument == 10
MaxCommonTerms == 20

\* natural.stopwords, as far as the corpora below meet it
Stopwords == {<<"t", "h", "e">>, <<"a", "n", "d">>}

\* item.term.toLowerCase()
LowerOf(c) == CASE c = "W" -> "w" [] c = "O" -> "o" [] c = "T" -> "t" [] OTHER -> c
ToLowerCase(term) == [k \in 1..Len(term) |-> LowerOf(term[k])]

Slice(seq, n) == SubSeq(seq, 1, IF Len(seq) < n THEN Len(seq) ELSE n)

\* lines 151-153: the items visited by the two loops, in the order visited
RECURSIVE VisitedFrom(_, _)
VisitedFrom(documents, i) ==
    IF i > Len(documents) THEN <<>>
    ELSE Slice(documents[i], TermsPerDocument) \o VisitedFrom(documents, i + 1)

Lowered(item) == [term |-> ToLowerCase(item.term), tfidf |-> item.tfidf]

\* lines 157-159: stopwords and short terms are skipped
Counted(item) == ~(item.term \in Stopwords \/ Len(item.term) < 3)

CountedItems(documents) ==
    LET visited == VisitedFrom(documents, 1)
    IN SelectSeq([k \in 1..Len(visited) |-> Lowered(visited[k])], Counted)

Least(S) == CHOOSE k \in S : \A j \in S : k <= j

\* tfidfSum: the item's tfidf on the first visit, += on every later one
RECURSIVE TfidfSum(_, _)
TfidfSum(items, at) ==
    IF Cardinality(at) = 1 THEN items[Least(at)].tfidf
    ELSE LET last == CHOOSE k \in at : \A j \in at : j <= k
         IN Add(TfidfSum(items, at \ {last}), items[last].tfidf)

\* a key every object inherits: terms["constructor"] is never empty, so the
\* test of line 161 fails and line 168 updates the inherited function
InheritedKeys == {<<"c", "o", "n", "s", "t", "r", "u", "c", "t", "o", "r">>}

\* lines 161-171, Object.values(terms): one value per term set on the
\* object, in the order in which the terms were first met, with the count of
\* its visits and the sum of their tfidf
TermValues(items) ==
    LET first == {k \in 1..Len(items) :
                     /\ items[k].term \notin InheritedKeys
                     /\ \A j \in 1..(k - 1) : items[j].term # items[k].term}
        Nth(i) == CHOOSE k \in first : Cardinality({j \in first : j < k}) = i - 1
        Visits(k) == {j \in 1..Len(items) : items[j].term = items[k].term}
    IN [i \in 1..Cardinality(first) |->
           [term |-> items[Nth(i)].term,
            count |-> Cardinality(Visits(Nth(i))),
            tfidfSum |-> TfidfSum(items, Visits(Nth(i)))]]

\* lines 176-180
Averaged(item) ==
    [term |-> item.term, count |-> item.count,
     averageTfidf |-> Div(item.tfidfSum, I(item.count))]

MoreThanOnce(item) == item.count > 1

\* lines 182-188: the comparator is positive when a has to come after b
ComesAfter(a, b) ==
    IF b.count # a.count THEN b.count - a.count > 0
    ELSE Gt(b.averageTfidf, a.averageTfidf)

\* Array.prototype.sort is stable: an item is preceded by the items it has
\* to come after and by the earlier items it compares equal to
SortTerms(items) ==
    LET Before(k) ==
            {j \in 1..Len(items) :
                \/ ComesAfter(items[k], items[j])
                \/ j < k /\ ~ComesAfter(items[j], items[k])}
    IN [i \in 1..Len(items) |->
           items[CHOOSE k \in 1..Len(items) : Cardinality(Before(k)) = i - 1]]

extractCommonTerms_NoCap(documents) ==
    LET values == TermValues(CountedItems(documents))
        mapped == [k \in 1..Len(values) |-> Averaged(values[k])]
    IN SortTerms(SelectSeq(mapped, MoreThanOnce))

\* extractCommonTerms, lines 146-190, over this.tfidf.documents given as the
\* listTerms of each document
extractCommonTerms(documents) ==
    LET values == TermValues(CountedItems(documents))
        mapped == [k \in 1..Len(values) |-> Averaged(values[k])]
    IN Slice(SortTerms(SelectSeq(mapped, MoreThanOnce)), MaxCommonTerms)

-----------------------------------------------------------------------------
(* getSuccessPatterns *)

\* SuccessfulAdModel.find({}).sort({ successScore: -1 }).limit(100): every
\* order the sort admits (documents of equal score come in any order)
MaxScoreIds(st, S) ==
    {id \in S : \A other \in S : Ge(st[id].successScore, st[other].successScore)}

RECURSIVE SortedByScore(_, _)
SortedByScore(st, S) ==
    IF S = {} THEN {<<>>}
    ELSE UNION { {<<st[id].adData>> \o rest : rest \in SortedByScore(st, S \ {id})} :
                 id \in MaxScoreIds(st, S) }

TopAds(st) ==
    {SubSeq(ads, 1, IF Len(ads) < TopLimit THEN Len(ads) ELSE TopLimit) :
        ads \in SortedByScore(st, {id \in AdIds : st[id].present})}

IdleGetter ==
    [pc |-> "idle", hit |-> FALSE, loaded |-> FALSE, enough |-> FALSE,
     setFailed |-> FALSE, seen |-> NoReport, top |-> <<>>,
     computed |-> NoReport, wrote |-> NoPatterns, result |-> NoReport,
     regot |-> FALSE, at |-> 0, failed |-> "none"]

\* line 265: the GET is sent
GetSuccessPatterns(g) ==
    /\ running = 0
    /\ getter[g].pc = "idle"
    /\ getter' = [getter EXCEPT ![g].pc = "get"]
    /\ redisQ' = Append(redisQ, Cmd(g, "get"))
    /\ UNCHANGED <<scoreVars, pureVars, auxVars, search, stored, patternCache, analysis>>

\* lines 265-274: the GET is answered; a hit is parsed and returned, a miss
\* sends the find
CacheGetReturns(g) ==
    /\ running = 0
    /\ getter[g].pc = "get"
    /\ redisQ # <<>> /\ Head(redisQ) = Cmd(g, "get")
    /\ redisQ' = Tail(redisQ)
    /\ LET cachedPatterns == CacheGet(patternCache, now) IN
       IF cachedPatterns.present
       THEN getter' = [getter EXCEPT ![g].pc = "returned", ![g].hit = TRUE,
                                     ![g].seen = cachedPatterns.value,
                                     ![g].result = JsonParse(cachedPatterns.value),
                                     ![g].at = now]
       ELSE getter' = [getter EXCEPT ![g].pc = "find"]
    /\ UNCHANGED <<scoreVars, pureVars, auxVars, search, stored, patternCache, analysis>>

\* a GET fails: getSuccessPatterns logs and rethrows (lines 298-301)
CacheGetFails(g) ==
    /\ running = 0
    /\ getter[g].pc \in {"get", "reget"}
    /\ redisQ # <<>> /\ Head(redisQ) = Cmd(g, "get")
    /\ redisQ' = Tail(redisQ)
    /\ getter' = [getter EXCEPT ![g].pc = "threw", ![g].failed = "get", ![g].at = now]
    /\ UNCHANGED <<scoreVars, pureVars, auxVars, search, stored, patternCache, analysis>>

\* lines 272-297: the find is answered.  With ads, analyzeSuccessPatterns
\* runs up to its SET or returns at once for too few ads, and then the GET is
\* sent again; with none, the empty report is returned.
FindReturns(g) ==
    /\ running = 0
    /\ getter[g].pc = "find"
    /\ \E ads \in TopAds(stored) :
          IF Len(ads) > 0
          THEN IF EnoughToAnalyze(ads)
               THEN \/ /\ getter' = [getter EXCEPT ![g].pc = "set", ![g].loaded = TRUE,
                                                   ![g].enough = TRUE,
                                                   ![g].top = IdsOf(ads),
                                                   ![g].computed = Patterns(ads, now)]
                       /\ redisQ' = Append(redisQ, Cmd(g, "set"))
                    \* the analysis rethrows (lines 73-76) and so does
                    \* getSuccessPatterns (lines 298-301)
                    \/ /\ getter' = [getter EXCEPT ![g].pc = "threw", ![g].loaded = TRUE,
                                                   ![g].enough = TRUE,
                                                   ![g].top = IdsOf(ads),
                                                   ![g].failed = "analysis",
                                                   ![g].at = now]
                       /\ UNCHANGED redisQ
               ELSE /\ getter' = [getter EXCEPT ![g].pc = "reget", ![g].loaded = TRUE,
                                                ![g].top = IdsOf(ads)]
                    /\ redisQ' = Append(redisQ, Cmd(g, "get"))
          ELSE /\ getter' = [getter EXCEPT ![g].pc = "returned", ![g].loaded = TRUE,
                                           ![g].result = EmptyReport(now),
                                           ![g].at = now]
               /\ UNCHANGED redisQ
    /\ UNCHANGED <<scoreVars, pureVars, auxVars, search, stored, patternCache, analysis>>

\* the find fails: getSuccessPatterns logs and rethrows
FindFails(g) ==
    /\ running = 0
    /\ getter[g].pc = "find"
    /\ getter' = [getter EXCEPT ![g].pc = "threw", ![g].failed = "find", ![g].at = now]
    /\ UNCHANGED <<scoreVars, pureVars, auxVars, search, stored, patternCache, redisQ, analysis>>

\* analyzeSuccessPatterns, lines 59-72: the SET is answered, the analysis
\* returns, and getSuccessPatterns sends the GET again (line 284)
CacheSetDone(g) ==
    /\ running = 0
    /\ getter[g].pc = "set"
    /\ redisQ # <<>> /\ Head(redisQ) = Cmd(g, "set")
    /\ patternCache' = CacheSet(getter[g].computed, now)
    /\ getter' = [getter EXCEPT ![g].pc = "reget",
                                ![g].wrote = CacheSet(getter[g].computed, now)]
    /\ redisQ' = Append(Tail(redisQ), Cmd(g, "get"))
    /\ UNCHANGED <<scoreVars, pureVars, auxVars, search, stored, analysis>>

\* the SET fails: caught and logged (lines 67-69), then as above
CacheSetFails(g) ==
    /\ running = 0
    /\ getter[g].pc = "set"
    /\ redisQ # <<>> /\ Head(redisQ) = Cmd(g, "set")
    /\ getter' = [getter EXCEPT ![g].pc = "reget", ![g].setFailed = TRUE]
    /\ redisQ' = Append(Tail(redisQ), Cmd(g, "get"))
    /\ UNCHANGED <<scoreVars, pureVars, auxVars, search, stored, patternCache, analysis>>

\* lines 284-297: the second GET is answered
CacheRegetReturns(g) ==
    /\ running = 0
    /\ getter[g].pc = "reget"
    /\ redisQ # <<>> /\ Head(redisQ) = Cmd(g, "get")
    /\ redisQ' = Tail(redisQ)
    /\ LET newlyCachedPatterns == CacheGet(patternCache, now) IN
       IF newlyCachedPatterns.present
       THEN getter' = [getter EXCEPT ![g].pc = "returned", ![g].regot = TRUE,
                                     ![g].result = JsonParse(newlyCachedPatterns.value),
                                     ![g].at = now]
       ELSE getter' = [getter EXCEPT ![g].pc = "returned",
                                     ![g].result = EmptyReport(now),
                                     ![g].at = now]
    /\ UNCHANGED <<scoreVars, pureVars, auxVars, search, stored, patternCache, analysis>>

-----------------------------------------------------------------------------
(* The pure functions applied to drawn inputs *)

RangeChars == {"0", "1", "-", "<", ">", "$", "N", "/", "A"}

RangeStrings == UNION {[1..k -> RangeChars] : k \in 0..MaxLen}

\* what a caller may pass as adData.spend / adData.impressions
RangeInputs ==
    {Str(s) : s \in RangeStrings}
        \cup {Undefined, Null, NumVal(I(0)), NumVal(I(250)), NumVal(NaN)}

ScoreSamples == {Q(25 * k, ScoreSteps) : k \in 0..ScoreSteps}

ComponentInputs ==
    [durationScore : ScoreSamples, spendScore : ScoreSamples,
     impressionsScore : ScoreSamples, engagementScore : ScoreSamples]

\* what extractMetrics may hand to a tier function: any number the range
\* parser returns, and numbers on both sides of every tier
MetricSamples ==
    {I(-40), I(0), I(3), I(7), I(20), I(45), I(60), I(100), I(700), I(3000),
     I(5000), I(20000), I(70000), I(300000), I(500000)}
        \cup {I(14), I(30), I(500), I(1000)}
        \cup {Q(4 * b - 1, 4) : b \in {7, 14, 30, 60, 100, 500, 1000, 5000}}
ParsedMetrics == {parseSpendRange(r) : r \in RangeInputs}
MetricInputs == MetricSamples \cup ParsedMetrics

\* the metrics calculateEngagementScore reads
EngagementInputs ==
    [impressions : {NaN, I(-5), I(0), I(1000)},
     estimatedEngagement : {NaN, I(-3), I(0), I(5), I(20), I(40), I(80), I(200)}]

\* raw ads by their delivery times: running, without a start time, stopped
\* before the start, with an unparsable stop time, started hours ago
DurationAds ==
    { Ad1, Ad3, Ad4,
      [Ad1 EXCEPT !.hasStop = TRUE, !.stop = I(StartHour - 48 * DayHours)],
      [Ad1 EXCEPT !.hasStop = TRUE, !.stop = I(StartHour - 5 * DayHours)],
      [Ad1 EXCEPT !.hasStop = TRUE, !.stop = NaN],
      [Ad3 EXCEPT !.start = I(StartHour - 5)],
      [Ad3 EXCEPT !.start = I(StartHour - 36)],
      [Ad3 EXCEPT !.start = I(StartHour + 30)] }

DurationInputs == [ad : DurationAds, t : {StartHour, StartHour + 12}]

\* the same raw ad scored twice, at Date.now() = t1 and later at t2
RescoreTimes ==
    {StartHour, StartHour + 12, StartHour + DayHours, StartHour + 25 * DayHours}
RescoreInputs ==
    {x \in [ad : DurationAds, t1 : RescoreTimes, t2 : RescoreTimes] : x.t1 <= x.t2}

\* extractMetrics, line 85, and calculateScore, line 31, at clock t
DurationScored(ad, t) ==
    [durationDays |-> DurationDays(ad, t),
     durationScore |-> calculateDurationScore(DurationDays(ad, t))]

\* the corpora handed to extractCommonTerms: at least five documents (the
\* analysis threshold), each listing its terms by descending tf-idf
Letters ==
    <<"a", "b", "c", "d", "e", "f", "g", "h", "i", "j", "k", "l", "m", "n",
      "o", "p", "q", "r", "s", "t", "u", "v", "w", "x", "y", "z", "0", "1">>
Word(i) == <<"w", "o", Letters[i]>>
ShortTerm == <<"o", "k">>

ListedTerm(d, j, shift, scheme) ==
    IF scheme = 2 /\ d <= 2 /\ j = 1 THEN <<"t", "h", "e">>
    ELSE IF scheme = 2 /\ d <= 2 /\ j = 2 THEN ShortTerm
    ELSE IF scheme = 2 /\ d <= 2 /\ j = 3
    THEN <<"c", "o", "n", "s", "t", "r", "u", "c", "t", "o", "r">>
    ELSE Word((((TermsPerDocument + shift) * (d - 1) + j - 1) % NumWords) + 1)

ListTerms(d, shift, scheme) ==
    [j \in 1..DocTerms |->
        [term |-> ListedTerm(d, j, shift, scheme),
         tfidf |-> Q((DocTerms + 1 - j) * (d + scheme), 4)]]

Corpus(n, shift, scheme) == [d \in 1..n |-> ListTerms(d, shift, scheme)]

Corpora ==
    {[docs |-> Corpus(n, shift, scheme)] :
        n \in MinAdsForPatterns..MaxDocs, shift \in 0..MaxShift, scheme \in 1..2}

-----------------------------------------------------------------------------
(* StructureAnalyzer: analyzeAdStructure over the joined body texts *)

\* A text is the sequence of the UTF-16 code units of bodies.join(' ').
\* "*" stands for a character of the emoji class that takes one code unit
\* (U+2600 to U+27BF), "?" for the question mark, "a" for any other
\* character; no text over these holds one of the ctaWords.
EmojiClass == {"*"}

\* RegExp.prototype.test of a regular expression with the g flag: the
\* search starts at lastIndex; a match leaves lastIndex behind the match, a
\* failure resets it to 0
RegExpTest(text, lastIndex) ==
    LET hits == {p \in (lastIndex + 1)..Len(text) : text[p] \in EmojiClass}
    IN  IF hits = {}
        THEN [found |-> FALSE, lastIndex |-> 0]
        ELSE [found |-> TRUE,
              lastIndex |-> CHOOSE p \in hits : \A q \in hits : p <= q]

\* lines 121-127: the one emojiRegex object is tested on every ad in turn;
\* the number of ads the filter keeps
RECURSIVE EmojiFiltered(_, _, _)
EmojiFiltered(texts, k, lastIndex) ==
    IF k > Len(texts) THEN 0
    ELSE LET r == RegExpTest(texts[k], lastIndex)
         IN  (IF r.found THEN 1 ELSE 0) + EmojiFiltered(texts, k + 1, r.lastIndex)

RECURSIVE TotalLength(_, _)
TotalLength(texts, k) ==
    IF k > Len(texts) THEN 0 ELSE Len(texts[k]) + TotalLength(texts, k + 1)

HasQuestion(text) == \E p \in 1..Len(text) : text[p] = "?"

Rate(count, n) == MathRound(Mul(Div(I(count), I(IF n > 1 THEN n ELSE 1)), I(100)))

\* analyzeAdStructure, lines 92-136, over the joined text of each ad
analyzeAdStructure(texts) ==
    LET n == Len(texts)
        textLengths == {k \in 1..n : Len(texts[k]) > 0}
    IN
    [averageTextLength |->
         IF textLengths # {}
         THEN MathRound(Div(I(TotalLength(texts, 1)), I(Cardinality(textLengths))))
         ELSE I(0),
     ctaPresenceRate |-> Rate(0, n),
     questionPresenceRate |->
         Rate(Cardinality({k \in 1..n : HasQuestion(texts[k])}), n),
     emojiPresenceRate |-> Rate(EmojiFiltered(texts, 1, 0), n)]

-----------------------------------------------------------------------------
(* searchSuccessfulAds and FacebookAdLibraryAdapter.searchAds *)

\* searchAds, line 87: 'EX', 3600 seconds, in hours
AdCacheHours == 1

NoAdCache == [present |-> FALSE, data |-> <<>>, expiresAt |-> 0]

\* redisClient.get(cacheKey) for a key that has not expired
AdCacheGet(cache, t) == IF cache.present /\ t < cache.expiresAt THEN cache ELSE NoAdCache

\* the request handler before it is called, beside the adapter's cache entry
\* of the one search key
NoSearch ==
    [pc |-> "idle", cache |-> NoAdCache, upstream |-> "none", retries |-> 0,
     fetched |-> <<>>, status |-> 0, success |-> FALSE, data |-> <<>>]

\* res.status(code).json({ error: ... })
RespondError(code) ==
    [search EXCEPT !.pc = "responded", !.status = code, !.success = FALSE]

\* searchSuccessfulAds, lines 20-32, and searchAds, lines 10-19: without
\* keywords the handler answers 400, else the adapter awaits its cache
SearchSuccessfulAds(keywords) ==
    /\ search.pc = "idle"
    /\ req = "idle"
    /\ running = 0
    /\ search' = IF keywords = <<>>
                 THEN RespondError(400)
                 ELSE [search EXCEPT !.pc = "cacheGet"]
    /\ UNCHANGED <<scoreVars, pureVars, auxVars, patternVars>>

\* searchSuccessfulAds, lines 35-44, on what searchAds returned: the adapter
\* only ever returns an object whose data is an array, so the 502 branch is
\* never taken and processAds is called
AdapterReturned(ads, how) ==
    /\ search' = [search EXCEPT !.pc = "processing", !.fetched = ads,
                                !.upstream = how]
    /\ ProcessAdsCalled(ads)

\* searchAds, lines 19-30: a cache hit is returned as parsed; on a miss
\* checkRateLimits at most delays the call and axios.get is awaited
AdCacheGetReturns ==
    /\ search.pc = "cacheGet"
    /\ running = 0
    /\ LET cached == AdCacheGet(search.cache, now)
       IN  IF cached.present
           THEN AdapterReturned(cached.data, search.upstream)
           ELSE /\ search' = [search EXCEPT !.pc = "upstream"]
                /\ UNCHANGED <<scoreVars, pureVars, auxVars, patternVars>>

\* searchAds, lines 24-30: a Redis error is logged and the API is called
AdCacheGetFails ==
    /\ search.pc = "cacheGet"
    /\ running = 0
    /\ search' = [search EXCEPT !.pc = "upstream"]
    /\ UNCHANGED <<scoreVars, pureVars, auxVars, patternVars>>

\* searchAds, lines 38-88: a response whose data is an array is counted and
\* the cache write is awaited
UpstreamReturns(ads) ==
    /\ search.pc = "upstream"
    /\ running = 0
    /\ search' = [search EXCEPT !.pc = "cacheSet", !.fetched = ads,
                                !.upstream = "ok"]
    /\ UNCHANGED <<scoreVars, pureVars, auxVars, patternVars>>

\* searchAds, lines 68-76: a response without a data array is logged and
\* { data: [], paging: {} } is returned in its place
UpstreamMalformed ==
    /\ search.pc = "upstream"
    /\ running = 0
    /\ AdapterReturned(<<>>, "malformed")

\* searchAds, lines 95-124, and searchSuccessfulAds, lines 63-69: no response
\* (network error, timeout) or a 401 is thrown to the handler, which answers
\* 500
UpstreamFails(how) ==
    /\ search.pc = "upstream"
    /\ running = 0
    /\ search' = [RespondError(500) EXCEPT !.upstream = how]
    /\ UNCHANGED <<scoreVars, pureVars, auxVars, patternVars>>

\* searchAds, lines 97-105: a 429 starts the backoff timer, whatever the
\* number of 429 answers before it
UpstreamLimited ==
    /\ search.pc = "upstream"
    /\ running = 0
    /\ search' = [search EXCEPT !.pc = "backoff", !.upstream = "limited"]
    /\ UNCHANGED <<scoreVars, pureVars, auxVars, patternVars>>

\* searchAds, lines 105-108: the timer fires and searchAds is called again
BackoffElapsed ==
    /\ search.pc = "backoff"
    /\ running = 0
    /\ search' = [search EXCEPT
                     !.pc = "cacheGet",
                     !.retries = IF @ < MaxRetries THEN @ + 1 ELSE @]
    /\ UNCHANGED <<scoreVars, pureVars, auxVars, patternVars>>

\* searchAds, lines 83-94: the response is cached for an hour and returned
AdCacheSetDone ==
    /\ search.pc = "cacheSet"
    /\ running = 0
    /\ search' = [search EXCEPT
                     !.pc = "processing",
                     !.cache = [present |-> TRUE, data |-> search.fetched,
                                expiresAt |-> now + AdCacheHours]]
    /\ ProcessAdsCalled(search.fetched)

\* searchAds, lines 89-94: a failed cache write is logged
AdCacheSetFails ==
    /\ search.pc = "cacheSet"
    /\ running = 0
    /\ search' = [search EXCEPT !.pc = "processing"]
    /\ ProcessAdsCalled(search.fetched)

\* searchSuccessfulAds, lines 44-62: processAds has returned the successful
\* ads, which all pass the default minScore of 70
SearchResponds ==
    /\ search.pc = "processing"
    /\ req = "returned"
    /\ search' = [search EXCEPT !.pc = "responded", !.status = 200,
                                !.success = TRUE, !.data = SuccessfulAds]
    /\ UNCHANGED <<scoreVars, pureVars, auxVars, patternVars>>

\* searchSuccessfulAds, lines 63-69: processAds has thrown
SearchFails ==
    /\ search.pc = "processing"
    /\ req = "rejected"
    /\ search' = RespondError(500)
    /\ UNCHANGED <<scoreVars, pureVars, auxVars, patternVars>>

-----------------------------------------------------------------------------
(* rateLimiterMiddleware: the middleware of the ad routes and its cleanup *)

\* keyGenerator(req): the client addresses
Keys == {"ip1", "ip2"}

NoCount == [present |-> FALSE, count |-> 0, timestamp |-> 0]

\* clock: Date.now(); requestCounts: the Map of the middleware; uncleaned:
\* the same Map had the cleanup never run; log: the requests answered so far
IdleLimiter ==
    [clock |-> 0,
     requestCounts |-> [k \in Keys |-> NoCount],
     uncleaned |-> [k \in Keys |-> NoCount],
     log |-> <<>>]

\* lines 68-78: the entry of the key after a request at time t
CountRequest(entry, t) ==
    LET requestData == IF entry.present THEN entry
                       ELSE [present |-> TRUE, count |-> 0, timestamp |-> t]
        current == IF t - requestData.timestamp > windowMs
                   THEN [requestData EXCEPT !.count = 0, !.timestamp = t]
                   ELSE requestData
    IN  [current EXCEPT !.count = @ + 1]

\* lines 81-94: 429 above maxRequests, next() otherwise
Answer(requestData) == IF requestData.count > maxRequests THEN "429" ELSE "next"

\* the middleware, lines 57-95, for a request of client key; the routes
\* pass no skip option, so no request is skipped
Middleware(key) ==
    /\ Len(limiter.log) < MaxRequestsSent
    /\ LET t == limiter.clock
           requestData == CountRequest(limiter.requestCounts[key], t)
           shadow == CountRequest(limiter.uncleaned[key], t)
       IN  limiter' =
               [limiter EXCEPT
                   !.requestCounts[key] = requestData,
                   !.uncleaned[key] = shadow,
                   !.log = Append(@, [key |-> key, at |-> t,
                                      status |-> Answer(requestData),
                                      expected |-> Answer(shadow)])]
    /\ UNCHANGED <<scoreVars, pureVars, patternVars, search, service>>

\* CleanUp deleting every entry, whatever its age
CleanUp_DeletesAll ==
    /\ limiter' = [limiter EXCEPT !.requestCounts = [k \in Keys |-> NoCount]]
    /\ UNCHANGED <<scoreVars, pureVars, patternVars, search, service>>

\* the setInterval callback, lines 47-54: entries older than the window are
\* deleted; the timer may fire at any time between two requests
CleanUp ==
    /\ limiter' =
           [limiter EXCEPT
               !.requestCounts =
                   [k \in Keys |->
                       IF @[k].present /\ limiter.clock - @[k].timestamp > windowMs
                       THEN NoCount ELSE @[k]]]
    /\ UNCHANGED <<scoreVars, pureVars, patternVars, search, service>>

LimiterTick ==
    /\ limiter.clock < MaxClock
    /\ limiter' = [limiter EXCEPT !.clock = @ + 1]
    /\ UNCHANGED <<scoreVars, pureVars, patternVars, search, service>>

-----------------------------------------------------------------------------
(* RedisService: connect and getClient of the singleton of redis.js *)

\* client: this.client, 0 for null, else the number of the client created;
\* created: the createClient calls so far; status: of each client created;
\* calls: the connect() and getClient() calls made, with the client each
\* awaits and the client it got
IdleService ==
    [client |-> 0, isConnected |-> FALSE, created |-> 0,
     status |-> [c \in 1..MaxClients |-> "none"],
     calls |-> <<>>]

Call(op, pc, awaits, got) == [op |-> op, pc |-> pc, awaits |-> awaits, got |-> got]

\* connect, lines 16-30: a client is created and assigned to this.client and
\* its connect() is awaited
CreateAndConnect(svc) ==
    [svc EXCEPT !.client = svc.created + 1,
                !.created = @ + 1,
                !.status[svc.created + 1] = "connecting"]

\* connect(), lines 10-31
Connect ==
    /\ Len(service.calls) < MaxCalls
    /\ IF service.isConnected
       THEN service' = [service EXCEPT
                           !.calls = Append(@, Call("connect", "returned", 0,
                                                    service.client))]
       ELSE /\ service.created < MaxClients
            /\ service' = [CreateAndConnect(service) EXCEPT
                              !.calls = Append(@, Call("connect", "awaiting",
                                                       service.created + 1, 0))]
    /\ UNCHANGED <<scoreVars, pureVars, patternVars, search, limiter>>

\* getClient(), lines 38-44: without a connected client connect() is called
\* and not awaited, and this.client is returned as it then is
GetClient ==
    /\ Len(service.calls) < MaxCalls
    /\ IF service.client = 0 \/ ~service.isConnected
       THEN /\ service.created < MaxClients
            /\ service' = [CreateAndConnect(service) EXCEPT
                              !.calls = Append(@, Call("getClient", "returned", 0,
                                                       service.created + 1))]
       ELSE service' = [service EXCEPT
                           !.calls = Append(@, Call("getClient", "returned", 0,
                                                    service.client))]
    /\ UNCHANGED <<scoreVars, pureVars, patternVars, search, limiter>>

\* the 'connect' event of client c, lines 25-28, and the end of the await of
\* line 30: the connect() calls awaiting c return this.client (line 31)
ConnectEvent(c) ==
    /\ service.status[c] = "connecting"
    /\ service' =
           [service EXCEPT
               !.isConnected = TRUE,
               !.status[c] = "open",
               !.calls = [i \in 1..Len(@) |->
                             IF @[i].pc = "awaiting" /\ @[i].awaits = c
                             THEN [@[i] EXCEPT !.pc = "returned",
                                               !.got = service.client]
                             ELSE @[i]]]
    /\ UNCHANGED <<scoreVars, pureVars, patternVars, search, limiter>>

\* the 'error' event of client c, lines 20-23: a connection attempt that
\* fails rejects the await of line 30 (lines 32-35); an open connection that
\* breaks is reconnected by the client
ErrorEvent(c) ==
    /\ service.status[c] \in {"connecting", "open"}
    /\ service' =
           [service EXCEPT
               !.isConnected = FALSE,
               !.status[c] = IF @ = "open" THEN "connecting" ELSE "failed",
               !.calls = [i \in 1..Len(@) |->
                             IF @[i].pc = "awaiting" /\ @[i].awaits = c
                             THEN [@[i] EXCEPT !.pc = "threw"]
                             ELSE @[i]]]
    /\ UNCHANGED <<scoreVars, pureVars, patternVars, search, limiter>>

AuxIdle == limiter = IdleLimiter /\ service = IdleService

-----------------------------------------------------------------------------
(* Initial conditions of the parts a specification leaves idle *)

\* the joined body texts of the ads handed to analyzeAdStructure
BodyTexts ==
    { <<>>, <<"*">>, <<"a", "*">>, <<"a", "?">>, <<"*", "a", "*">>, <<"a", "a", "a">> }
AdTexts == UNION {[1..n -> BodyTexts] : n \in 1..MaxAds}

\* the same documents handed over in the opposite order of the ads
Reversed(seq) == [i \in 1..Len(seq) |-> seq[Len(seq) + 1 - i]]

PureIdle ==
    /\ pureFn = "none"
    /\ pureArg = Undefined
    /\ pureRet = NaN
    /\ pureDone = FALSE

ScoreIdle ==
    /\ now = 0
    /\ scoreCache = <<>>
    /\ batch = <<>>
    /\ req = "idle"
    /\ task = <<>>
    /\ running = 0
    /\ frames = <<>>
    /\ stored = <<>>
    /\ patternCache = NoPatterns
    /\ redisQ = <<>>
    /\ analysis = NoAnalysis
    /\ getter = <<>>
    /\ search = NoSearch

PureInit ==
    /\ \/ pureFn \in {"parseSpendRange", "parseImpressionRange"} /\ pureArg \in RangeInputs
       \/ pureFn = "calculateTotalScore" /\ pureArg \in ComponentInputs
       \/ pureFn = "extractCommonTerms" /\ pureArg \in Corpora
       \/ /\ pureFn \in {"calculateDurationScore", "calculateSpendScore",
                         "calculateImpressionsScore"}
          /\ pureArg \in MetricInputs
       \/ pureFn = "calculateEngagementScore" /\ pureArg \in EngagementInputs
       \/ pureFn = "durationDays" /\ pureArg \in DurationInputs
       \/ pureFn = "rescore" /\ pureArg \in RescoreInputs
       \/ pureFn = "analyzeTwice" /\ pureArg \in Corpora
       \/ pureFn = "analyzeAdStructure" /\ pureArg \in {[texts |-> t] : t \in AdTexts}
    /\ pureRet = NaN
    /\ pureDone = FALSE
    /\ ScoreIdle
    /\ AuxIdle

ApplyParseSpendRange ==
    /\ pureFn = "parseSpendRange" /\ ~pureDone
    /\ pureRet' = parseSpendRange(pureArg)
    /\ pureDone' = TRUE
    /\ UNCHANGED <<pureFn, pureArg, scoreVars, patternVars, search, auxVars>>

ApplyParseImpressionRange ==
    /\ pureFn = "parseImpressionRange" /\ ~pureDone
    /\ pureRet' = parseImpressionRange(pureArg)
    /\ pureDone' = TRUE
    /\ UNCHANGED <<pureFn, pureArg, scoreVars, patternVars, search, auxVars>>

ApplyCalculateTotalScore ==
    /\ pureFn = "calculateTotalScore" /\ ~pureDone
    /\ pureRet' = calculateTotalScore(pureArg)
    /\ pureDone' = TRUE
    /\ UNCHANGED <<pureFn, pureArg, scoreVars, patternVars, search, auxVars>>

ApplyExtractCommonTerms ==
    /\ pureFn = "extractCommonTerms" /\ ~pureDone
    /\ pureRet' = [terms |-> extractCommonTerms(pureArg.docs)]
    /\ pureDone' = TRUE
    /\ UNCHANGED <<pureFn, pureArg, scoreVars, patternVars, search, auxVars>>

ApplyCalculateDurationScore ==
    /\ pureFn = "calculateDurationScore" /\ ~pureDone
    /\ pureRet' = calculateDurationScore(pureArg)
    /\ pureDone' = TRUE
    /\ UNCHANGED <<pureFn, pureArg, scoreVars, patternVars, search, auxVars>>

ApplyCalculateSpendScore ==
    /\ pureFn = "calculateSpendScore" /\ ~pureDone
    /\ pureRet' = calculateSpendScore(pureArg)
    /\ pureDone' = TRUE
    /\ UNCHANGED <<pureFn, pureArg, scoreVars, patternVars, search, auxVars>>

ApplyCalculateImpressionsScore ==
    /\ pureFn = "calculateImpressionsScore" /\ ~pureDone
    /\ pureRet' = calculateImpressionsScore(pureArg)
    /\ pureDone' = TRUE
    /\ UNCHANGED <<pureFn, pureArg, scoreVars, patternVars, search, auxVars>>

ApplyCalculateEngagementScore ==
    /\ pureFn = "calculateEngagementScore" /\ ~pureDone
    /\ pureRet' = calculateEngagementScore(pureArg)
    /\ pureDone' = TRUE
    /\ UNCHANGED <<pureFn, pureArg, scoreVars, patternVars, search, auxVars>>

\* extractMetrics, lines 83-85, with Date.now() = pureArg.t
ApplyDurationDays ==
    /\ pureFn = "durationDays" /\ ~pureDone
    /\ pureRet' = DurationDays(pureArg.ad, pureArg.t)
    /\ pureDone' = TRUE
    /\ UNCHANGED <<pureFn, pureArg, scoreVars, patternVars, search, auxVars>>

\* two recomputations of one raw ad, as far as the clock enters them
ApplyRescore ==
    /\ pureFn = "rescore" /\ ~pureDone
    /\ pureRet' = [first |-> DurationScored(pureArg.ad, pureArg.t1),
                   second |-> DurationScored(pureArg.ad, pureArg.t2)]
    /\ pureDone' = TRUE
    /\ UNCHANGED <<pureFn, pureArg, scoreVars, patternVars, search, auxVars>>

\* analyzeSuccessPatterns, lines 104-111, on a collection and again on the
\* same collection with its ads in the opposite order
ApplyAnalyzeTwice ==
    /\ pureFn = "analyzeTwice" /\ ~pureDone
    /\ pureRet' = [first |-> extractCommonTerms(pureArg.docs),
                   again |-> extractCommonTerms(pureArg.docs),
                   reordered |-> extractCommonTerms(Reversed(pureArg.docs))]
    /\ pureDone' = TRUE
    /\ UNCHANGED <<pureFn, pureArg, scoreVars, patternVars, search, auxVars>>

ApplyAnalyzeAdStructure ==
    /\ pureFn = "analyzeAdStructure" /\ ~pureDone
    /\ pureRet' = analyzeAdStructure(pureArg.texts)
    /\ pureDone' = TRUE
    /\ UNCHANGED <<pureFn, pureArg, scoreVars, patternVars, search, auxVars>>

PureNext ==
    \/ ApplyExtractCommonTerms
    \/ ApplyAnalyzeAdStructure
    \/ ApplyAnalyzeTwice
    \/ ApplyRescore
    \/ ApplyCalculateDurationScore
    \/ ApplyCalculateSpendScore
    \/ ApplyCalculateImpressionsScore
    \/ ApplyCalculateEngagementScore
    \/ ApplyDurationDays
    \/ ApplyParseSpendRange
    \/ ApplyParseImpressionRange
    \/ ApplyCalculateTotalScore

SpecPure == PureInit /\ [][PureNext]_vars

-----------------------------------------------------------------------------
(* The scoring pipeline: one processAds call over a drawn batch *)

Init ==
    /\ PureIdle
    /\ now = StartHour
    /\ scoreCache \in CacheInits
    /\ batch = <<>>
    /\ req = "idle"
    /\ task = <<>>
    /\ running = 0
    /\ frames = <<>>
    /\ stored = EmptyStore
    /\ patternCache = NoPatterns
    /\ redisQ = <<>>
    /\ analysis = NoAnalysis
    /\ getter = <<>>
    /\ search = NoSearch
    /\ AuxIdle

Next ==
    \/ \E ads \in Batches : ProcessAds(ads)
    \/ \E i \in 1..Len(task) : FindOneFails(i)
    \/ \E i \in 1..Len(task) : FindOneReturns(i)
    \/ ExtractMetricsCalls
    \/ EstimateEngagementCalls
    \/ StackOverflow
    \/ ProcessAdsRejects
    \/ ProcessAdsJoin
    \/ BulkWriteDone
    \/ BulkWriteFails
    \/ DetachedCatch
    \/ DetachedSetDone
    \/ DetachedSetFails
    \/ Tick

Spec == Init /\ [][Next]_vars

-----------------------------------------------------------------------------
(* The pattern store: getSuccessPatterns calls beside a processAds call    *)
(* whose five scores have just been read from a warm score cache           *)

\* four documents, one of them without creative text
FourStore ==
    [EmptyStore EXCEPT !["a1"] = Doc(Ad1, I(91)), !["a3"] = Doc(Ad3, I(84)),
                       !["a4"] = Doc(Ad4, I(80)), !["a5"] = Doc(Ad5, I(80))]

\* five documents, four of them with creative text
FiveStore == [FourStore EXCEPT !["a6"] = Doc(Ad6, I(75))]

\* six documents, five of them with creative text
SixStore == [FiveStore EXCEPT !["a2"] = Doc(AdNA, I(88))]

\* the report an earlier analysis of the five-ad batch has cached
EarlierPatterns == CacheSet(Patterns(FiveBatch, StartHour - 1), StartHour - 1)

PatternsInit ==
    /\ PureIdle
    /\ now = StartHour
    /\ scoreCache = AllFresh
    /\ batch = FiveBatch
    /\ task = [i \in 1..Len(FiveBatch) |-> FromCache(AllFresh[FiveBatch[i].id], StartHour)]
    /\ req = "scoring"
    /\ running = 0
    /\ frames = <<>>
    /\ stored \in {EmptyStore, FiveStore, SixStore}
    /\ patternCache \in {NoPatterns, EarlierPatterns}
    /\ redisQ = <<>>
    /\ analysis = NoAnalysis
    /\ getter = [g \in 1..MaxGetters |-> IdleGetter]
    /\ search = NoSearch
    /\ AuxIdle

PatternsNext ==
    \/ ProcessAdsJoin
    \/ BulkWriteDone
    \/ BulkWriteFails
    \/ DetachedCatch
    \/ DetachedSetDone
    \/ DetachedSetFails
    \/ \E g \in 1..MaxGetters : GetSuccessPatterns(g)
    \/ \E g \in 1..MaxGetters : CacheGetReturns(g)
    \/ \E g \in 1..MaxGetters : CacheGetFails(g)
    \/ \E g \in 1..MaxGetters : FindReturns(g)
    \/ \E g \in 1..MaxGetters : FindFails(g)
    \/ \E g \in 1..MaxGetters : CacheSetDone(g)
    \/ \E g \in 1..MaxGetters : CacheSetFails(g)
    \/ \E g \in 1..MaxGetters : CacheRegetReturns(g)
    \/ Tick

SpecPatterns == PatternsInit /\ [][PatternsNext]_vars

-----------------------------------------------------------------------------
(* The search endpoint: one searchSuccessfulAds request *)

Keywords == <<"s", "h", "o", "e", "s">>

\* what the Ad Library answers with when its data is an array; JSON admits
\* null as an element
SearchPayloads == { <<>>, <<Ad1>>, <<NullAd>>, FiveBatch }

\* an answer cached by a request of an earlier hour, or of this hour
AdCacheInits ==
    { NoAdCache,
      [present |-> TRUE, data |-> <<Ad1>>, expiresAt |-> StartHour],
      [present |-> TRUE, data |-> <<Ad1>>, expiresAt |-> StartHour + AdCacheHours] }

SearchInit ==
    /\ PureIdle
    /\ now = StartHour
    /\ scoreCache \in {EmptyCache, AllFresh}
    /\ batch = <<>>
    /\ req = "idle"
    /\ task = <<>>
    /\ running = 0
    /\ frames = <<>>
    /\ stored = EmptyStore
    /\ patternCache = NoPatterns
    /\ redisQ = <<>>
    /\ analysis = NoAnalysis
    /\ getter = <<>>
    /\ \E cache \in AdCacheInits : search = [NoSearch EXCEPT !.cache = cache]
    /\ AuxIdle

SearchNext ==
    \/ \E keywords \in {<<>>, Keywords} : SearchSuccessfulAds(keywords)
    \/ AdCacheGetReturns
    \/ AdCacheGetFails
    \/ \E ads \in SearchPayloads : UpstreamReturns(ads)
    \/ UpstreamMalformed
    \/ \E how \in {"unreachable", "unauthorized"} : UpstreamFails(how)
    \/ UpstreamLimited
    \/ BackoffElapsed
    \/ AdCacheSetDone
    \/ AdCacheSetFails
    \/ SearchResponds
    \/ SearchFails
    \/ \E i \in 1..Len(task) : FindOneFails(i)
    \/ \E i \in 1..Len(task) : FindOneReturns(i)
    \/ ExtractMetricsCalls
    \/ EstimateEngagementCalls
    \/ StackOverflow
    \/ ProcessAdsRejects
    \/ ProcessAdsJoin
    \/ BulkWriteDone
    \/ BulkWriteFails
    \/ DetachedCatch
    \/ DetachedSetDone
    \/ DetachedSetFails
    \/ Tick

SpecSearch == SearchInit /\ [][SearchNext]_vars

\* every pending step is taken in the end: Redis, the Ad Library and MongoDB
\* answer, timers fire and the synchronous code runs on; which answer the
\* Ad Library gives is up to it
SpecSearchLive == SearchInit /\ [][SearchNext]_vars /\ WF_vars(SearchNext)

-----------------------------------------------------------------------------
(* Claims about calculateScore and processAds (specification Spec) *)

\* The scored ad the specification describes for an ad scored at clock t: the
\* metrics extractMetrics and estimateEngagement compute around their calls,
\* with the inner call giving the same durationDays.
ClaimedMetrics(ad, t) ==
    MetricsGiven(ad, t,
        EngagementGiven(ad, parseImpressionRange(ad.impressions), DurationDays(ad, t)))
ClaimedScores(ad, t) == ComponentScoresOf(ClaimedMetrics(ad, t))
ClaimedTotal(ad, t) == calculateTotalScore(ClaimedScores(ad, t))

Between(x, lo, hi) == Ge(x, I(lo)) /\ Le(x, I(hi))

Resolved(i) == task[i].pc = "resolved"

\* C1 (as claimed): an ad with no fresh score-cache entry is returned with
\* successScore = round(1.2 d + 0.8 s + 0.8 i + 1.2 e) over the tier values
\* of its extracted metrics; the ad started 45 days ago with spend
\* "1000-2000" and impressions "50000-100000" gets d in [15,25], s in
\* [15,25], i in [10,15].
C1_ScoreFromMetrics ==
    \A i \in 1..Len(task) :
        (Resolved(i) /\ task[i].lookup = "miss") =>
            /\ task[i].componentScores = ClaimedScores(batch[i], task[i].at)
            /\ task[i].successScore = ClaimedTotal(batch[i], task[i].at)
            /\ batch[i] = Ad1 =>
                  /\ Between(task[i].componentScores.durationScore, 15, 25)
                  /\ Between(task[i].componentScores.spendScore, 15, 25)
                  /\ Between(task[i].componentScores.impressionsScore, 10, 15)

\* C2 (as claimed): the chain of calls between extractMetrics and
\* estimateEngagement is finite, so every extractMetrics call returns its
\* record: it neither fills the stack nor ends in an error.
C2_ExtractMetricsReturns ==
    /\ Len(frames) < StackLimit
    /\ \A i \in 1..Len(task) : task[i].cause # "RangeError"

\* C3 (as claimed): calculateScore resolves for every element of a batch,
\* whatever its shape, with the all-zero scores on a failure, so processAds
\* is never aborted by one ad.
C3_NeverRejects ==
    /\ \A i \in 1..Len(task) :
          /\ task[i].pc # "rejected"
          /\ (Resolved(i) /\ task[i].cause # "none") =>
                 task[i].successScore = I(0) /\ task[i].componentScores = ZeroScores
    /\ req # "rejected"

\* C7 (as claimed): an ad whose spend string is "N/A" still gets a full
\* scored ad: spendScore is the tier value of spend 0 and the other component
\* scores are computed from its metrics, not the all-zero fallback; every
\* other ad of the batch gets the score it would get alone.
C7_MalformedSpendStillScored ==
    \A i \in 1..Len(task) :
        (Resolved(i) /\ task[i].lookup = "miss") =>
            IF batch[i].spend = SpendNA
            THEN /\ task[i].how # "fallback"
                 /\ task[i].componentScores =
                        [ClaimedScores(batch[i], task[i].at)
                            EXCEPT !.spendScore = calculateSpendScore(I(0))]
            ELSE /\ task[i].componentScores = ClaimedScores(batch[i], task[i].at)
                 /\ task[i].successScore = ClaimedTotal(batch[i], task[i].at)

\* C8 (as claimed): an entry less than 24 hours old is returned as it is,
\* without recomputing and without writing the cache; with no entry, or one
\* 24 hours old or older, the score is recomputed from the raw ad.
C8_FreshWindow ==
    \A i \in 1..Len(task) :
        LET entry == scoreCache[batch[i].id] IN
        /\ (Resolved(i) /\ task[i].lookup = "hit") =>
              /\ entry.present /\ task[i].at - entry.updatedAt < DayHours
              /\ task[i].successScore = entry.totalScore
              /\ task[i].componentScores = entry.componentScores
        /\ (Resolved(i) /\ task[i].lookup = "miss") =>
              /\ ~entry.present \/ task[i].at - entry.updatedAt >= DayHours
              /\ task[i].successScore = ClaimedTotal(batch[i], task[i].at)
              /\ task[i].componentScores = ClaimedScores(batch[i], task[i].at)

\* C9 (as claimed): a failed lookup is treated as a miss: the score is still
\* computed from the ad's metrics and returned.
C9_LookupFailureIsMiss ==
    \A i \in 1..Len(task) :
        (Resolved(i) /\ task[i].lookup = "failed") =>
            /\ task[i].how # "fallback"
            /\ task[i].successScore = ClaimedTotal(batch[i], task[i].at)
            /\ task[i].componentScores = ClaimedScores(batch[i], task[i].at)

-----------------------------------------------------------------------------
(* Claims about the pure functions (specification SpecPure) *)

AllMax ==
    [durationScore |-> I(25), spendScore |-> I(25),
     impressionsScore |-> I(25), engagementScore |-> I(25)]

\* C4: calculateTotalScore returns an integer in [0, 100] for every
\* combination of component scores in [0, 25], and exactly 100 when all four
\* are 25.
C4_TotalScoreInRange ==
    (pureFn = "calculateTotalScore" /\ pureDone) =>
        /\ IsInteger(pureRet)
        /\ Ge(pureRet, I(0))
        /\ Le(pureRet, I(100))
        /\ (pureArg = AllMax => pureRet = I(100))

C4_Witness ==
    /\ pureFn = "calculateTotalScore" /\ pureDone
    /\ pureArg = AllMax
    /\ pureRet = I(100)

DigitsOf(s) == SelectSeq(s, IsDigit)
RangeMarks == {"-", "<", ">"}
\* a digit string that may carry separators or currency symbols
IsAmount(s) ==
    /\ DigitsOf(s) # <<>>
    /\ \A i \in 1..Len(s) : s[i] \notin RangeMarks
AmountValue(s) == I(DecimalValue(DigitsOf(s), 0))

IsParseCall == pureFn \in {"parseSpendRange", "parseImpressionRange"} /\ pureDone

\* the four shapes "A-B", "<N", ">N", "N"
IsBetween(s) ==
    \E k \in 1..Len(s) :
        s[k] = "-" /\ IsAmount(SubSeq(s, 1, k - 1)) /\ IsAmount(SubSeq(s, k + 1, Len(s)))
IsBelow(s) == s # <<>> /\ s[1] = "<" /\ IsAmount(Tail(s))
IsAbove(s) == s # <<>> /\ s[1] = ">" /\ IsAmount(Tail(s))
IsRangeShaped(s) == IsBetween(s) \/ IsBelow(s) \/ IsAbove(s) \/ IsAmount(s)

\* C5: for digit strings A, B, N (possibly carrying separators or currency
\* symbols) the parser returns (A+B)/2 for "A-B", N/2 for "<N", N*1.5 for
\* ">N" and N for "N"; parseImpressionRange gives the same results as
\* parseSpendRange.
C5_RangeShapes ==
    (IsParseCall /\ pureArg.t = "string") =>
        LET s == pureArg.s IN
        /\ \A k \in 1..Len(s) :
              (s[k] = "-" /\ IsAmount(SubSeq(s, 1, k - 1))
                          /\ IsAmount(SubSeq(s, k + 1, Len(s)))) =>
                 pureRet = Div(Add(AmountValue(SubSeq(s, 1, k - 1)),
                                   AmountValue(SubSeq(s, k + 1, Len(s)))), I(2))
        /\ IsBelow(s) => pureRet = Div(AmountValue(s), I(2))
        /\ IsAbove(s) => pureRet = Mul(AmountValue(s), Q(3, 2))
        /\ IsAmount(s) => pureRet = AmountValue(s)

C5_Witness ==
    /\ pureFn = "parseImpressionRange" /\ pureDone
    /\ pureArg = Str(<<"$", "1", "-", "0">>)
    /\ pureRet = Q(1, 2)

\* a range string the parser cannot read: no digit at all, or a "-" with a
\* side that has no digit (as in "N/A" and "100-")
Unparsable(s) ==
    \/ DigitsOf(s) = <<>>
    \/ \E k \in 1..Len(s) :
          /\ s[k] = "-"
          /\ \A j \in 1..(k - 1) : s[j] # "-"
          /\ \/ DigitsOf(SubSeq(s, 1, k - 1)) = <<>>
             \/ DigitsOf(Head(Split(SubSeq(s, k + 1, Len(s)), "-"))) = <<>>

\* C6 (as claimed): every empty, missing, non-string or unparsable range
\* input yields the number 0, and no input yields a non-numeric value.
C6_UnparsableYieldsZero ==
    IsParseCall =>
        /\ ~IsNaN(pureRet)
        /\ (pureArg.t # "string" \/ Unparsable(pureArg.s)) => pureRet = I(0)

-----------------------------------------------------------------------------
(* Claims about getSuccessPatterns (specification SpecPatterns) *)

\* two reports drawn from the same ads at the same time
IdSet(ids) == {ids[k] : k \in 1..Len(ids)}
SameReport(a, b) ==
    /\ a.kind = b.kind
    /\ IdSet(a.ads) = IdSet(b.ads)
    /\ IdSet(a.docs) = IdSet(b.docs)
    /\ a.updatedAt = b.updatedAt

\* C10 (as claimed): a call that hits the pattern cache returns the cached
\* report without loading ads; a call that misses and finds at least 5
\* stored ads with text analyzes the top ads, writes that report with a
\* 24-hour expiry, and returns the report it has computed itself.  Calls
\* whose own cache commands failed are left aside.
C10_ReturnsOwnReport ==
    \A g \in 1..Len(getter) :
        getter[g].pc = "returned" =>
            /\ getter[g].hit =>
                  /\ ~getter[g].loaded
                  /\ getter[g].result = JsonParse(getter[g].seen)
            /\ (~getter[g].hit /\ getter[g].enough /\ ~getter[g].setFailed) =>
                  /\ Len(getter[g].top) <= TopLimit
                  /\ getter[g].wrote.present
                  /\ getter[g].wrote.value = JsonStringify(getter[g].computed)
                  /\ getter[g].wrote.expiresAt - PatternExpiryHours
                         \in getter[g].computed.updatedAt..now
                  /\ SameReport(getter[g].result, getter[g].computed)

\* C11: a call that finds the pattern cache empty on both reads and too few
\* stored ads to analyze returns the empty report (no terms, no ads behind
\* it) stamped with the time of the return; it fails only if a cache read
\* or the find fails; it writes nothing, and the empty report is never in
\* the pattern cache.
C11_EmptyReportWhenTooFew ==
    /\ \A g \in 1..Len(getter) :
          /\ (getter[g].pc = "returned" /\ ~getter[g].hit /\ ~getter[g].enough
                 /\ ~getter[g].regot) =>
                /\ getter[g].result.kind = "empty"
                /\ getter[g].result.docs = <<>>
                /\ getter[g].result.ads = <<>>
                /\ getter[g].result.updatedAt = getter[g].at
                /\ getter[g].result.updatedAt >= StartHour
                /\ ~getter[g].wrote.present
          /\ (getter[g].pc = "threw" /\ ~getter[g].enough) =>
                getter[g].failed \in {"get", "find"}
    /\ patternCache.present => patternCache.value.kind = "patterns"

C11_Witness ==
    \E g \in 1..Len(getter) :
        /\ getter[g].pc = "returned" /\ getter[g].loaded
        /\ getter[g].top # <<>> /\ ~getter[g].enough /\ ~getter[g].regot
        /\ getter[g].result.kind = "empty"
        /\ ~patternCache.present

\* C12 (as claimed): a call whose cache read or cache write fails still
\* returns: it never throws because of the cache, and a call whose write
\* failed returns the report it has computed.
C12_CacheFailureRecomputes ==
    \A g \in 1..Len(getter) :
        /\ getter[g].failed # "get"
        /\ (getter[g].pc = "returned" /\ getter[g].enough /\ getter[g].setFailed) =>
              SameReport(getter[g].result, getter[g].computed)

\* the ad of the catalogue with the given id
CatalogueAd(id) == CHOOSE ad \in {Ad1, AdNA, Ad3, Ad4, Ad5, Ad6} : ad.id = id
TextCountOf(ids) == Cardinality({k \in 1..Len(ids) : HasText(CatalogueAd(ids[k]))})

\* C13: an analysis over ads of which fewer than 5 have text returns no
\* report and sends no write to the pattern cache; only an analysis over at
\* least 5 ads with text computes a report.
C13_TooFewTextsNoOp ==
    \A g \in 1..Len(getter) :
        /\ (getter[g].loaded /\ TextCountOf(getter[g].top) < MinAdsForPatterns) =>
              /\ ~getter[g].enough
              /\ getter[g].computed = NoReport
              /\ ~getter[g].wrote.present
              /\ getter[g].pc # "set"
              /\ \A k \in 1..Len(redisQ) : redisQ[k] # Cmd(g, "set")
        /\ getter[g].enough => TextCountOf(getter[g].top) >= MinAdsForPatterns

C13_Witness ==
    \E g \in 1..Len(getter) :
        /\ getter[g].pc = "returned" /\ getter[g].loaded
        /\ Len(getter[g].top) >= MinAdsForPatterns
        /\ TextCountOf(getter[g].top) < MinAdsForPatterns
        /\ getter[g].computed = NoReport

-----------------------------------------------------------------------------
(* Claims about extractCommonTerms (specification SpecPure) *)

\* the terms a document lists among its first ten
TopTermsOf(doc) ==
    {ToLowerCase(doc[j].term) : j \in 1..(IF Len(doc) < 10 THEN Len(doc) ELSE 10)}
DocsWith(docs, term) == {d \in 1..Len(docs) : term \in TopTermsOf(docs[d])}

RECURSIVE SumOver(_, _, _)
SumOver(docs, term, D) ==
    IF D = {} THEN I(0)
    ELSE LET d == CHOOSE x \in D : TRUE
             j == CHOOSE x \in 1..Len(docs[d]) : ToLowerCase(docs[d][x].term) = term
         IN Add(docs[d][j].tfidf, SumOver(docs, term, D \ {d}))
AverageOf(docs, term) ==
    Div(SumOver(docs, term, DocsWith(docs, term)), I(Cardinality(DocsWith(docs, term))))

\* the terms that qualify for the list
Candidates(docs) ==
    {term \in UNION {TopTermsOf(docs[d]) : d \in 1..Len(docs)} :
        /\ Len(term) >= 3
        /\ term \notin Stopwords
        /\ Cardinality(DocsWith(docs, term)) >= 2}

\* term t ranks strictly above term u
RanksAbove(docs, t, u) ==
    \/ Cardinality(DocsWith(docs, t)) > Cardinality(DocsWith(docs, u))
    \/ /\ Cardinality(DocsWith(docs, t)) = Cardinality(DocsWith(docs, u))
       /\ Gt(AverageOf(docs, t), AverageOf(docs, u))

\* C14: the list has at most 20 entries; each is a qualifying term with its
\* document count (>= 2) and its average tf-idf; the entries are in
\* descending order of count, then of average tf-idf; and when the cap is
\* reached no term left out by it ranks above a listed one (a term the
\* terms object never holds is not left out by the cap).
C14_CommonTermsRanked ==
    (pureFn = "extractCommonTerms" /\ pureDone) =>
        LET docs == pureArg.docs
            out == pureRet.terms
            listed == {out[k].term : k \in 1..Len(out)}
        IN
        /\ Len(out) <= 20
        /\ Cardinality(listed) = Len(out)
        /\ listed \subseteq Candidates(docs)
        /\ \A k \in 1..Len(out) :
              /\ out[k].count = Cardinality(DocsWith(docs, out[k].term))
              /\ out[k].count >= 2
              /\ out[k].averageTfidf = AverageOf(docs, out[k].term)
        /\ \A k \in 1..(Len(out) - 1) :
              ~RanksAbove(docs, out[k + 1].term, out[k].term)
        /\ Len(out) = 20 =>
              \A t \in Candidates(docs) \ (listed \cup InheritedKeys) :
                  \A u \in listed : ~RanksAbove(docs, t, u)

C14_Witness ==
    /\ pureFn = "extractCommonTerms" /\ pureDone
    /\ Len(pureRet.terms) = 20
    /\ Cardinality(Candidates(pureArg.docs)) > 20
    /\ \E d \in 1..Len(pureArg.docs) : <<"t", "h", "e">> \in TopTermsOf(pureArg.docs[d])
    /\ pureRet.terms[1].count > pureRet.terms[20].count

-----------------------------------------------------------------------------
(* Claims about the detached analysis (specification SpecPatterns) *)

\* C15: the pattern analysis is started only once every ad of the batch is
\* scored and the store step is over, at the moment processAds returns; a
\* rejected analysis is logged by the handler processAds attached, leaves
\* processAds returned, and is never left unhandled.
C15_AnalysisDetached ==
    /\ analysis.state # "none" =>
          /\ req = "returned"
          /\ \A i \in 1..Len(task) : task[i].pc = "resolved"
    /\ req \in {"idle", "scoring", "storing", "rejected"} => analysis.state = "none"
    /\ analysis.state # "unhandled"

C15_Witness ==
    /\ req = "returned"
    /\ analysis.state = "logged"
    /\ SuccessfulIdx # <<>>

-----------------------------------------------------------------------------
(* Claims about searchSuccessfulAds (specification SpecSearch) *)

\* C16: when the ad source cannot be reached or answers with a payload
\* whose data is not a list, the search request is answered with an error
\* status, never with success and an empty list.
C16_SourceFailureIsError ==
    (search.pc = "responded" /\ search.upstream \in {"unreachable", "malformed"})
        => (search.status >= 400 /\ ~search.success)

-----------------------------------------------------------------------------
(* Claims about the tier functions and durationDays (specification SpecPure) *)

IsTierCall ==
    pureFn \in {"calculateDurationScore", "calculateSpendScore",
                "calculateImpressionsScore", "calculateEngagementScore"}

InScoreRange(x) == ~IsNaN(x) /\ Ge(x, I(0)) /\ Le(x, I(25))

\* C17: each component score is a number in [0, 25], whatever the metric
\* handed to its tier function: negative, zero or the result of parsing an
\* unknown range.
C17_ComponentsInRange == (IsTierCall /\ pureDone) => InScoreRange(pureRet)

\* C18: durationDays is an integer of at least 1 for every raw ad, also
\* without a start time, with an unparsable time or with a stop before the
\* start.
C18_DurationAtLeastOne ==
    (pureFn = "durationDays" /\ pureDone)
        => (~IsNaN(pureRet) /\ IsInteger(pureRet) /\ Ge(pureRet, I(1)))

-----------------------------------------------------------------------------
(* Claims about the score cache (specification Spec) *)

\* C19 (as claimed): once a call that found no fresh entry has resolved, the
\* score-cache entry of its ad holds the total and the component scores the
\* call returned, with updatedAt at or after the time of the lookup.
C19_CacheHoldsRecompute ==
    \A i \in 1..Len(task) :
        (Resolved(i) /\ task[i].lookup = "miss") =>
            LET entry == scoreCache[batch[i].id] IN
            /\ entry.present
            /\ entry.totalScore = task[i].successScore
            /\ entry.componentScores = task[i].componentScores
            /\ entry.updatedAt >= task[i].at

\* the call of element i fails in this step: it rejects or takes the catch
\* block
FailsNow(i) ==
    /\ task'[i].pc = "rejected" \/ task'[i].how = "fallback"
    /\ i > Len(task) \/ task[i] # task'[i]

\* C20: a step in which a calculateScore call fails, and every step of the
\* synchronous code that leads to it, leaves every score-cache entry as it
\* was; no entry of a failed call's ad holds the all-zero fallback.
C20_FailureLeavesCache ==
    /\ [][((\E i \in 1..Len(task') : FailsNow(i)) \/ frames' # frames)
              => scoreCache' = scoreCache]_vars
    /\ [](\A i \in 1..Len(task) :
             task[i].how = "fallback" =>
                 LET entry == scoreCache[batch[i].id] IN
                 ~(entry.present /\ entry.totalScore = I(0)
                                /\ entry.componentScores = ZeroScores))

\* a call has failed on a stack overflow, another on its lookup or on a null
\* element, while the day-old entry of the first one's ad stands
C20_Witness ==
    /\ \E i \in 1..Len(task) :
          /\ Resolved(i) /\ task[i].how = "fallback" /\ task[i].cause = "RangeError"
          /\ scoreCache[batch[i].id] = Entry(I(88), HighScores, StartHour - DayHours)
    /\ \E j \in 1..Len(task) :
          task[j].pc = "rejected" \/ task[j].cause = "lookupFailed"

-----------------------------------------------------------------------------
(* Claims about repeated scoring (specification SpecPure) *)

C27_DurationGrows ==
    (pureFn = "rescore" /\ pureDone /\ ~pureArg.ad.hasStop) =>
        LET a == pureRet.first
            b == pureRet.second
        IN  /\ Ge(b.durationDays, a.durationDays)
               \/ (IsNaN(a.durationDays) /\ IsNaN(b.durationDays))
            /\ Ge(b.durationScore, a.durationScore)
               \/ (IsNaN(a.durationScore) /\ IsNaN(b.durationScore))

\* a running ad scored 25 days later has more days and a higher score
C27_Witness ==
    /\ pureFn = "rescore" /\ pureDone /\ ~pureArg.ad.hasStop
    /\ pureArg.t2 = pureArg.t1 + 25 * DayHours
    /\ Gt(pureRet.second.durationDays, pureRet.first.durationDays)
    /\ Gt(pureRet.second.durationScore, pureRet.first.durationScore)

-----------------------------------------------------------------------------
(* Claims about the shape of the tier functions (specification SpecPure) *)

\* C25: calculateDurationScore is non-decreasing in the duration (its value
\* is at least its value at every smaller sample), is 0 at 0 and is 25 from
\* 60 days on.
C25_DurationScoreMonotone ==
    (pureFn = "calculateDurationScore" /\ pureDone /\ ~IsNaN(pureArg)) =>
        /\ \A x \in MetricInputs \ {NaN} :
               Ge(pureArg, x) => Ge(pureRet, calculateDurationScore(x))
        /\ pureArg = I(0) => pureRet = I(0)
        /\ Ge(pureArg, I(60)) => pureRet = I(25)

\* just below 30 days the score is above that of every sample below 14 days
\* and below that of 30 days
C25_Witness ==
    /\ pureFn = "calculateDurationScore" /\ pureDone
    /\ pureArg = Q(119, 4)
    /\ Gt(pureRet, calculateDurationScore(I(14)))
    /\ Gt(calculateDurationScore(I(30)), pureRet)

\* the value calculateSpendScore returns at each tier boundary
SpendBoundaries == {<<100, 5>>, <<500, 10>>, <<1000, 15>>, <<5000, 25>>}

\* C26: calculateSpendScore is 25 from 5000 on, returns 5, 10, 15 and 25 at
\* the boundaries 100, 500, 1000 and 5000, and a quarter below a boundary
\* the lower tier's value is within 1/80 of the boundary value: no jump.
C26_SpendScoreContinuous ==
    (pureFn = "calculateSpendScore" /\ pureDone) =>
        /\ Ge(pureArg, I(5000)) => pureRet = I(25)
        /\ \A b \in SpendBoundaries :
               /\ pureArg = I(b[1]) => pureRet = I(b[2])
               /\ pureArg = Q(4 * b[1] - 1, 4) =>
                      /\ Le(pureRet, I(b[2]))
                      /\ Ge(pureRet, Sub(I(b[2]), Q(1, 80)))

\* a quarter below 1000 the 500 tier gives just less than 15
C26_Witness ==
    /\ pureFn = "calculateSpendScore" /\ pureDone
    /\ pureArg = Q(3999, 4)
    /\ Gt(I(15), pureRet) /\ Gt(pureRet, I(14))

-----------------------------------------------------------------------------
(* Claims about repeated corpus analysis (specification SpecPure) *)

\* C23 (as claimed): analysing the same collection of ads again, in the same
\* or in another order of the ads, gives the same commonTerms list: the same
\* terms with the same counts in the same order.
C23_AnalysisOrderFree ==
    (pureFn = "analyzeTwice" /\ pureDone) =>
        /\ pureRet.again = pureRet.first
        /\ pureRet.reordered = pureRet.first

-----------------------------------------------------------------------------
(* Claims about analyzeAdStructure (specification SpecPure) *)

\* the ads whose own text holds a character of the emoji class
WithEmoji(texts) ==
    {k \in 1..Len(texts) : \E p \in 1..Len(texts[k]) : texts[k][p] \in EmojiClass}

\* C24 (as claimed): emojiPresenceRate is round(100 * k / n) for the n ads
\* of the collection, k of which hold an emoji character in their own text,
\* whatever the order of the ads and whatever matched before.
C24_EmojiRatePerAd ==
    (pureFn = "analyzeAdStructure" /\ pureDone) =>
        pureRet.emojiPresenceRate =
            MathRound(Div(I(100 * Cardinality(WithEmoji(pureArg.texts))),
                          I(Len(pureArg.texts))))

-----------------------------------------------------------------------------
(* Claims about what processAds returns and stores (specification Spec) *)

\* the positions of the batch whose scored ad has successScore >= 70
Passing == {i \in 1..Len(task) : Ge(task[i].successScore, I(MIN_SUCCESS_SCORE))}

\* the k-th smallest position of S
Nth(S, k) == CHOOSE i \in S : Cardinality({j \in S : j <= i}) = k

\* C22: what processAds returns is the input ads with successScore >= 70 in
\* input order, whatever the order the score computations completed in; a
\* stored document is one of the returned ads with its score, and a
\* successful store holds all of them; processAds is rejected only when a
\* score computation is, never by the store step.
C22_ReturnsPassingInOrder ==
    /\ req = "returned" =>
          /\ Len(analysis.ads) = Cardinality(Passing)
          /\ \A k \in 1..Len(analysis.ads) : analysis.ads[k] = batch[Nth(Passing, k)]
          /\ \A id \in AdIds :
                 stored[id].present =>
                     \E i \in Passing : /\ batch[i].id = id
                                        /\ stored[id].adData = batch[i]
                                        /\ stored[id].successScore = task[i].successScore
          /\ (\E id \in AdIds : stored[id].present) =>
                 \A i \in Passing : stored[batch[i].id].present
    /\ req = "rejected" => \E i \in 1..Len(task) : task[i].pc = "rejected"
    /\ req = "storing" => Passing # {}

\* processAds has returned the second ad of a batch whose first ad scored
\* below 70, and the store step had failed
C22_Witness ==
    /\ req = "returned"
    /\ Passing = {2}
    /\ analysis.ads = <<batch[2]>>
    /\ stored = EmptyStore

-----------------------------------------------------------------------------
(* The rate limiter: requests of two clients, the clock and the cleanup *)

LimiterInit ==
    /\ PureIdle
    /\ ScoreIdle
    /\ limiter = IdleLimiter
    /\ service = IdleService

LimiterNext ==
    \/ \E key \in Keys : Middleware(key)
    \/ CleanUp
    \/ LimiterTick

SpecLimiter == LimiterInit /\ [][LimiterNext]_vars

-----------------------------------------------------------------------------
(* The Redis service: connect() and getClient() calls and the client events *)

RedisInit ==
    /\ PureIdle
    /\ ScoreIdle
    /\ limiter = IdleLimiter
    /\ service = IdleService

RedisNext ==
    \/ Connect
    \/ GetClient
    \/ \E c \in 1..MaxClients : ConnectEvent(c)
    \/ \E c \in 1..MaxClients : ErrorEvent(c)

SpecRedis == RedisInit /\ [][RedisNext]_vars

-----------------------------------------------------------------------------
(* Claims about the retries of searchAds (specification SpecSearchLive) *)

\* C28 (as claimed): every searchAds call completes in the end, by returning
\* data to the handler or by throwing, also when the Ad Library answers 429
\* to every attempt: the retries are bounded.
C28_SearchAdsCompletes ==
    (search.pc = "cacheGet") ~> (search.pc \in {"processing", "responded"})

-----------------------------------------------------------------------------
(* Claims about the rate limiter (specification SpecLimiter) *)

\* the requests of key passed to next() at or after time t, among the first
\* n requests answered
PassedSince(key, t, n) ==
    {i \in 1..n : /\ limiter.log[i].key = key
                  /\ limiter.log[i].status = "next"
                  /\ limiter.log[i].at >= t}

\* C29: for each key at most maxRequests requests of the window that starts
\* at the key's recorded timestamp are passed to next(); the request
\* answered last got 429 exactly when maxRequests requests of its window had
\* been passed before it, so the request that opens a window is passed;
\* and every request got the answer it would have got had the cleanup never
\* run.
C29_WindowLimit ==
    LET log == limiter.log
        n == Len(log)
    IN  /\ \A k \in Keys :
               limiter.requestCounts[k].present =>
                   Cardinality(PassedSince(k, limiter.requestCounts[k].timestamp, n))
                       <= maxRequests
        /\ (n > 0 /\ limiter.requestCounts[log[n].key].present) =>
               LET start == limiter.requestCounts[log[n].key].timestamp
                   before == Cardinality(PassedSince(log[n].key, start, n - 1))
               IN  /\ log[n].at - start <= windowMs
                   /\ log[n].status = IF before >= maxRequests THEN "429" ELSE "next"
        /\ \A i \in 1..n : log[i].status = log[i].expected

\* a client was answered 429 and, in a later window, passed again, after
\* the cleanup had deleted an entry
C29_Witness ==
    /\ \E i, j \in 1..Len(limiter.log) :
          /\ i < j
          /\ limiter.log[i].key = limiter.log[j].key
          /\ limiter.log[i].status = "429"
          /\ limiter.log[j].status = "next"
          /\ limiter.log[j].at - limiter.log[i].at > windowMs
    /\ \E k \in Keys :
          ~limiter.requestCounts[k].present /\ limiter.uncleaned[k].present

-----------------------------------------------------------------------------
(* Claims about the Redis service (specification SpecRedis) *)

\* C30 (as claimed): whatever connect() and getClient() calls are made, also
\* while a connection attempt is in progress, at most one client is created
\* and every call that returns gets that client.
C30_OneClient ==
    /\ service.created <= 1
    /\ \A i \in 1..Len(service.calls) :
          service.calls[i].pc = "returned" => service.calls[i].got = 1

====
